---- MODULE Spec2Model ----
(***************************************************************************)
(* Model of the cross-realm FileSystemHandle messaging helpers             *)
(* (messaging-helpers.js, the shared-worker message target) and of the     *)
(* postMessage test driver that uses them.                                 *)
(*                                                                         *)
(* Part 1: values (handles, snapshots, thrown values) and the pure         *)
(*         serializer / comparator functions.                              *)
(* Part 2: the state, with one specification per group of operations.      *)
(***************************************************************************)
EXTENDS Integers, Sequences, FiniteSets, TLC

\* ------------------------------------------------------------------ bounds
\* Largest number of children of a directory among the enumerated handles.
MaxEntries == 2
\* Number of messages the test page posts to the message targets.
MaxPosts == 2
\* Number of messages the routers post.
MaxReplies == 4
\* Number of handles in the batch posted on the broadcast channel.
MaxBroadcastHandles == 2

\* ------------------------------------------------------- results of a call
\* A call either returns a value or throws one.
Returned(v) == [status |-> "returned", value |-> v]
Threw(kind, message) == [status |-> "threw", error |-> [kind |-> kind, message |-> message]]
NotRun == [status |-> "none"]

\* A variant of ErrorToString that prints a thrown string like an Error.
ErrorToStringAsError(error) == "Error: " \o error.message

\* `${error}`: a thrown string is itself, a thrown Error object prints as
\* "<name>: <message>".
ErrorToString(error) ==
  IF error.kind = "string" THEN error.message
  ELSE error.kind \o ": " \o error.message

\* Object.assign(target, source): the fields of source added to (or written
\* over) those of target.
ObjectAssign(target, source) ==
  [k \in (DOMAIN target) \cup (DOMAIN source) |->
     IF k \in DOMAIN source THEN source[k] ELSE target[k]]

\* ------------------------------------------------------------------ handles
\* A handle object of the platform: id is the identity of the object, the
\* other fields are what the platform answers for it.  exists = FALSE is a
\* handle whose entry has been removed from the disk: reading it fails.
\* For a directory, entries is the order in which getEntries() yields the
\* children.
FileHandle(name, contents, read, write) ==
  [id |-> <<>>, isFile |-> TRUE, isDirectory |-> FALSE, name |-> name,
   read |-> read, write |-> write, exists |-> TRUE,
   contents |-> contents, entries |-> <<>>]

DirectoryHandle(name, entries, read, write) ==
  [id |-> <<>>, isFile |-> FALSE, isDirectory |-> TRUE, name |-> name,
   read |-> read, write |-> write, exists |-> TRUE,
   contents |-> "", entries |-> entries]

\* An object that is neither a file handle nor a directory handle.
PlainObject(name) ==
  [id |-> <<>>, isFile |-> FALSE, isDirectory |-> FALSE, name |-> name,
   read |-> "prompt", write |-> "prompt", exists |-> TRUE,
   contents |-> "", entries |-> <<>>]

Removed(handle) == [handle EXCEPT !.exists = FALSE]

\* The collation order String.prototype.localeCompare uses for the names
\* of the model, least first.
Collation ==
  << "a", "a.txt", "b", "c", "d",
     "directory-with-files", "empty-directory", "empty-file",
     "first-file-in-directory", "first-file-in-subdirectory",
     "first-file-with-contents", "second-file-in-directory",
     "second-file-with-contents", "subdirectory",
     "temp-directory", "temp-file",
     "test-error-directory", "test-error-file", "top", "x" >>

CollationRank(name) == CHOOSE i \in 1..Len(Collation) : Collation[i] = name

\* left.localeCompare(right): negative, zero or positive.
localeCompare(left, right) ==
  IF CollationRank(left) < CollationRank(right) THEN -1
  ELSE IF CollationRank(left) > CollationRank(right) THEN 1
  ELSE 0

\* handle.queryPermission({ writable }): the permission state of the handle.
queryPermission(handle, writable) ==
  IF writable THEN handle.write ELSE handle.read

\* getFileContents(handle): the text of the file; rejects when the entry is
\* gone.
getFileContents(file_handle) ==
  IF file_handle.exists THEN Returned(file_handle.contents)
  ELSE Threw("NotFoundError", "A requested file or directory could not be found")

\* directory_handle.getEntries(): the children, in the order of the
\* enumeration; rejects when the entry is gone.
getEntries(directory_handle) ==
  IF directory_handle.exists THEN Returned(directory_handle.entries)
  ELSE Threw("NotFoundError", "A requested file or directory could not be found")

\* A variant of queryPermissionEffect for handle.requestPermission({ writable }),
\* which turns a permission the user is asked for into a granted one.
requestPermissionEffect(handle, writable) ==
  IF writable
  THEN [handle EXCEPT !.write = IF @ = "prompt" THEN "granted" ELSE @]
  ELSE [handle EXCEPT !.read = IF @ = "prompt" THEN "granted" ELSE @]

\* The handle after handle.queryPermission({ writable }): a query changes
\* nothing.
queryPermissionEffect(handle, writable) == handle

\* The handle after getFileContents(handle): the file is read.
getFileContentsEffect(file_handle) == file_handle

\* The handle after directory_handle.getEntries() is iterated.
getEntriesEffect(directory_handle) == directory_handle

\* The handle after the calls serialize_handle makes on it and on the
\* handles below it: the two permission queries of
\* serialize_file_system_handle, the read of a file, the enumeration of a
\* directory and the serialization of each child (these at most: a call
\* that throws ends the traversal).
RECURSIVE AfterSerialize(_)
AfterSerialize(handle) ==
  LET queried == queryPermissionEffect(queryPermissionEffect(handle, FALSE), TRUE) IN
  IF handle.isFile THEN getFileContentsEffect(queried)
  ELSE IF handle.isDirectory
  THEN LET enumerated == getEntriesEffect(queried) IN
       [enumerated EXCEPT !.entries =
          [i \in 1..Len(enumerated.entries) |-> AfterSerialize(enumerated.entries[i])]]
  ELSE handle

\* ---------------------------------------------------------------- serializer
serialize_file_system_handle(file_system_handle) ==
  LET read_permission == queryPermission(file_system_handle, FALSE)
      write_permission == queryPermission(file_system_handle, TRUE)
  IN [is_file |-> file_system_handle.isFile,
      is_directory |-> file_system_handle.isDirectory,
      name |-> file_system_handle.name,
      read_permission |-> read_permission,
      write_permission |-> write_permission]

\* A variant of serialize_file_system_file_handle that leaves the contents
\* out of the snapshot.
serialize_file_system_file_handle_without_contents(file_handle) ==
  LET file_contents == getFileContents(file_handle) IN
  IF file_contents.status = "threw" THEN file_contents
  ELSE Returned(serialize_file_system_handle(file_handle))

serialize_file_system_file_handle(file_handle) ==
  LET file_contents == getFileContents(file_handle) IN
  IF file_contents.status = "threw" THEN file_contents
  ELSE LET serialized_file_system_handle ==
             serialize_file_system_handle(file_handle)
       IN Returned(ObjectAssign(serialized_file_system_handle,
                                [file_contents |-> file_contents.value]))

\* A variant of InsertByName that orders greatest first.
InsertByNameDescending(sorted, x) ==
  LET k == Cardinality({i \in 1..Len(sorted) :
                          localeCompare(sorted[i].name, x.name) >= 0})
  IN SubSeq(sorted, 1, k) \o <<x>> \o SubSeq(sorted, k + 1, Len(sorted))

\* Array.prototype.sort((left, right) => left.name.localeCompare(right.name)):
\* a stable sort; x goes after every element that does not compare greater.
InsertByName(sorted, x) ==
  LET k == Cardinality({i \in 1..Len(sorted) :
                          localeCompare(sorted[i].name, x.name) <= 0})
  IN SubSeq(sorted, 1, k) \o <<x>> \o SubSeq(sorted, k + 1, Len(sorted))

\* A variant of SortByName that leaves the array as it is.
SortByNameKeepsOrder(array) == array

RECURSIVE SortByName(_)
SortByName(array) ==
  IF array = <<>> THEN <<>>
  ELSE InsertByName(SortByName(SubSeq(array, 1, Len(array) - 1)),
                    array[Len(array)])

RECURSIVE serialize_handle(_)
RECURSIVE SerializeEntries(_, _, _, _)

\* The `for await` loop of serialize_file_system_directory_handle from child
\* i on: the value is the pair of arrays, or the first failure.
SerializeEntries(entries, i, serialized_files, serialized_directories) ==
  IF i > Len(entries)
  THEN Returned([files |-> serialized_files,
                 directories |-> serialized_directories])
  ELSE LET child_handle == entries[i]
           serialized_child_handle == serialize_handle(child_handle)
       IN IF serialized_child_handle.status = "threw"
          THEN serialized_child_handle
          ELSE IF child_handle.isDirectory
          THEN SerializeEntries(entries, i + 1, serialized_files,
                 Append(serialized_directories, serialized_child_handle.value))
          ELSE SerializeEntries(entries, i + 1,
                 Append(serialized_files, serialized_child_handle.value),
                 serialized_directories)

serialize_file_system_directory_handle(directory_handle) ==
  LET enumeration == getEntries(directory_handle) IN
  IF enumeration.status = "threw" THEN enumeration
  ELSE LET children == SerializeEntries(enumeration.value, 1, <<>>, <<>>) IN
       IF children.status = "threw" THEN children
       ELSE LET serialized_files == SortByName(children.value.files)
                serialized_directories == SortByName(children.value.directories)
                serialized_file_system_handle ==
                  serialize_file_system_handle(directory_handle)
            IN Returned(ObjectAssign(serialized_file_system_handle,
                          [files |-> serialized_files,
                           directories |-> serialized_directories]))

\* A variant of serialize_handle that takes whatever is not a directory for
\* a file.
serialize_handle_unchecked(handle) ==
  IF handle.isDirectory THEN serialize_file_system_directory_handle(handle)
  ELSE serialize_file_system_file_handle(handle)

serialize_handle(handle) ==
  IF handle.isDirectory THEN serialize_file_system_directory_handle(handle)
  ELSE IF handle.isFile THEN serialize_file_system_file_handle(handle)
  ELSE Threw("string",
             "Object is not a FileSystemFileHandle or FileSystemDirectoryHandle "
             \o "[object Object]")

\* ---------------------------------------------------------------- comparator
\* assert_equals(actual, expected, description) of the test harness.
assert_equals(actual, expected, description) ==
  IF actual = expected THEN Returned("undefined")
  ELSE Threw("AssertionError", description)

\* The first failure of a sequence of calls made one after the other.
RECURSIVE FirstFailure(_)
FirstFailure(calls) ==
  IF calls = <<>> THEN Returned("undefined")
  ELSE IF Head(calls).status = "threw" THEN Head(calls)
  ELSE FirstFailure(Tail(calls))

\* A variant of assert_equals_serialized_file_system_handles that compares
\* the read permission of left with the write permission of right.
assert_equals_serialized_file_system_handles_crossed(left, right) ==
  FirstFailure(<<
    assert_equals(left.is_file, right.is_file,
      "Each FileSystemHandle instance must use the expected \"isFile\"."),
    assert_equals(left.is_directory, right.is_directory,
      "Each FileSystemHandle instance must use the expected \"isDirectory\"."),
    assert_equals(left.name, right.name,
      "Each FileSystemHandle instance must use the expected \"name\"  property."),
    assert_equals(left.read_permission, right.write_permission,
      "Each FileSystemHandle instance must have the expected read  permission."),
    assert_equals(left.write_permission, right.write_permission,
      "Each FileSystemHandle instance must have the expected write  permission.") >>)

assert_equals_serialized_file_system_handles(left, right) ==
  FirstFailure(<<
    assert_equals(left.is_file, right.is_file,
      "Each FileSystemHandle instance must use the expected \"isFile\"."),
    assert_equals(left.is_directory, right.is_directory,
      "Each FileSystemHandle instance must use the expected \"isDirectory\"."),
    assert_equals(left.name, right.name,
      "Each FileSystemHandle instance must use the expected \"name\"  property."),
    assert_equals(left.read_permission, right.read_permission,
      "Each FileSystemHandle instance must have the expected read  permission."),
    assert_equals(left.write_permission, right.write_permission,
      "Each FileSystemHandle instance must have the expected write  permission.") >>)

assert_equals_serialized_file_system_file_handles(left, right) ==
  LET shared == assert_equals_serialized_file_system_handles(left, right) IN
  IF shared.status = "threw" THEN shared
  ELSE assert_equals(left.file_contents, right.file_contents,
         "Each FileSystemFileHandle instance must have the same contents.")

\* A variant of assert_equals_serialized_file_system_directory_handles that
\* compares the number of directory children and not the children.
assert_equals_serialized_file_system_directory_handles_shallow(left, right) ==
  LET shared == assert_equals_serialized_file_system_handles(left, right) IN
  IF shared.status = "threw" THEN shared
  ELSE LET files_length ==
             assert_equals(Len(left.files), Len(right.files),
               "Each FileSystemDirectoryHandle must contain the same number of file children")
       IN
       IF files_length.status = "threw" THEN files_length
       ELSE LET files ==
                  FirstFailure([i \in 1..Len(left.files) |->
                    assert_equals_serialized_file_system_file_handles(
                      left.files[i], right.files[i])])
            IN
            IF files.status = "threw" THEN files
            ELSE assert_equals(Len(left.directories), Len(right.directories),
                   "Each FileSystemDirectoryHandle must contain the same number of directory children")

RECURSIVE assert_equals_serialized_file_system_directory_handles(_, _)
assert_equals_serialized_file_system_directory_handles(left, right) ==
  LET shared == assert_equals_serialized_file_system_handles(left, right) IN
  IF shared.status = "threw" THEN shared
  ELSE LET files_length ==
             assert_equals(Len(left.files), Len(right.files),
               "Each FileSystemDirectoryHandle must contain the same number of file children")
       IN
       IF files_length.status = "threw" THEN files_length
       ELSE LET files ==
                  FirstFailure([i \in 1..Len(left.files) |->
                    assert_equals_serialized_file_system_file_handles(
                      left.files[i], right.files[i])])
            IN
            IF files.status = "threw" THEN files
            ELSE LET directories_length ==
                       assert_equals(Len(left.directories), Len(right.directories),
                         "Each FileSystemDirectoryHandle must contain the same number of directory children")
                 IN
                 IF directories_length.status = "threw" THEN directories_length
                 ELSE FirstFailure([i \in 1..Len(left.directories) |->
                        assert_equals_serialized_file_system_directory_handles(
                          left.directories[i], right.directories[i])])

assert_equals_serialized_handles(left, right) ==
  IF left.is_directory
  THEN assert_equals_serialized_file_system_directory_handles(left, right)
  ELSE IF left.is_file
  THEN assert_equals_serialized_file_system_file_handles(left, right)
  ELSE Threw("ReferenceError", "handle is not defined")

\* ================================================================ platform
\* Endpoints are the objects postMessage() is called on and events are
\* dispatched at.  "page" is the window of the test page, "frame" the window
\* of a document message target, Worker / workerScope the two sides of a
\* dedicated worker, sharedPort / connectPort the two ports of a shared
\* worker connection, port1 / port2 the ports of a MessageChannel, and the
\* channel objects are BroadcastChannel objects of one name.
Undefined == "undefined"
Null == "null"
NullData == [isNull |-> TRUE]

ChannelObjects == <<"channelA", "channelB">>

Endpoints ==
  { "page", "frame", "Worker", "workerScope", "sharedPort", "connectPort",
    "port1", "port2", "pageChannel", "channelA", "channelB", "channelC" }

Kind(endpoint) ==
  CASE endpoint \in {"page", "frame"} -> "window"
    [] endpoint \in {"Worker", "workerScope"} -> "worker"
    [] endpoint \in {"sharedPort", "connectPort", "port1", "port2"} -> "port"
    [] OTHER -> "channel"

\* The other side of a port or worker object.
Peer(endpoint) ==
  CASE endpoint = "Worker" -> "workerScope"
    [] endpoint = "workerScope" -> "Worker"
    [] endpoint = "sharedPort" -> "connectPort"
    [] endpoint = "connectPort" -> "sharedPort"
    [] endpoint = "port1" -> "port2"
    [] endpoint = "port2" -> "port1"

LocalOrigin == "location.origin"
RemoteOrigin == "kRemoteOrigin"

\* The window of a realm, which is the source of the events it sends to
\* windows.
WindowOf(realm) == IF realm \in {"page", "frame"} THEN realm ELSE Null

\* Does the message carry a FileSystemHandle?
HasHandles(message) ==
  \/ "file_system_handles" \in DOMAIN message /\ message.file_system_handles # <<>>
  \/ "serialized_file_system_handles" \in DOMAIN message
       /\ message.serialized_file_system_handles # <<>>
  \/ "file_handle" \in DOMAIN message
  \/ "directory_handle" \in DOMAIN message

\* The structured clone made by post number n: every handle in the message
\* is a new object on the receiving side, everything else is copied.
CloneHandle(h, n) == [h EXCEPT !.id = Append(h.id, n)]

StructuredClone(message, n) ==
  [k \in DOMAIN message |->
     CASE k = "file_system_handles" ->
            [i \in 1..Len(message[k]) |-> CloneHandle(message[k][i], n)]
       [] k = "serialized_file_system_handles" ->
            [i \in 1..Len(message[k]) |->
               [handle |-> CloneHandle(message[k][i].handle, n),
                serialized |-> message[k][i].serialized]]
       [] k \in {"file_handle", "directory_handle"} -> CloneHandle(message[k], n)
       [] OTHER -> message[k]]

\* message_data.type: undefined for a string or an object without the field.
TypeOf(message_data) ==
  IF "type" \in DOMAIN message_data THEN message_data.type ELSE Undefined

\* postMessage(message, target_origin) on destination throws: there is no
\* destination object, or a worker or port is given a target origin.
PostThrows(destination, target_origin) ==
  \/ destination \in {Undefined, Null}
  \/ Kind(destination) \in {"worker", "port"} /\ target_origin # Undefined

PostError(destination) ==
  IF destination \in {Undefined, Null}
  THEN [kind |-> "TypeError",
        message |-> "Cannot read properties of " \o destination]
  ELSE [kind |-> "TypeError",
        message |-> "Failed to execute 'postMessage'"]

\* ================================================================== router
\* add_message_event_handlers(receiver, target, target_origin) registers the
\* two listeners on receiver; the registration is the record of its
\* arguments.
\* A variant of add_message_event_handlers that drops the target.
add_message_event_handlers_without_target(receiver, target, target_origin) ==
  [receiver |-> receiver, target |-> Undefined, target_origin |-> target_origin]

add_message_event_handlers(receiver, target, target_origin) ==
  [receiver |-> receiver, target |-> target, target_origin |-> target_origin]

\* A variant of ResolveMessageSource without the fallback to the target.
ResolveMessageSourceWithoutFallback(router, message_event) ==
  message_event.source

\* A variant of ResolveMessageSource that always replies to the target.
ResolveMessageSourceTargetOnly(router, message_event) ==
  router.target

\* Lines 25-30 and 108-111: reply to the source of the event, to the target
\* when the event has no source.
ResolveMessageSource(router, message_event) ==
  IF message_event.source = Null THEN router.target ELSE message_event.source

NoReply == [none |-> TRUE]

\* What running a try block did: how it ended, the registrations it made,
\* the ports it started, the BroadcastChannel it opened, the entries it
\* created in the sandbox, and the reply it posts last.
Effects(outcome, attach, start, open, create, reply) ==
  [outcome |-> outcome, attach |-> attach, start |-> start, open |-> open,
   create |-> create, reply |-> reply]

\* A variant of SerializeBatch that puts each new entry first.
RECURSIVE SerializeBatchNewestFirst(_, _, _, _)
SerializeBatchNewestFirst(handles, enumerated, i, serialized_file_system_handles) ==
  IF i > Len(handles) THEN Returned(serialized_file_system_handles)
  ELSE LET handle == handles[i]
           serialized == serialize_handle(enumerated[i])
       IN IF serialized.status = "threw" THEN serialized
          ELSE SerializeBatchNewestFirst(handles, enumerated, i + 1,
                 <<[handle |-> handle, serialized |-> serialized.value]>>
                   \o serialized_file_system_handles)

\* The loop of case 'receive-file-system-handles' from handle i on;
\* enumerated[i] is handles[i] as the platform enumerates it this time.
RECURSIVE SerializeBatch(_, _, _, _)
SerializeBatch(handles, enumerated, i, serialized_file_system_handles) ==
  IF i > Len(handles) THEN Returned(serialized_file_system_handles)
  ELSE LET handle == handles[i]
           serialized == serialize_handle(enumerated[i])
       IN IF serialized.status = "threw" THEN serialized
          ELSE SerializeBatch(handles, enumerated, i + 1,
                 Append(serialized_file_system_handles,
                        [handle |-> handle, serialized |-> serialized.value]))

\* The cases of the switch on message_data.type.
\* case 'receive-message-port': a variant that does not start the port.
ReceiveMessagePortNotStarted(message_data) ==
  Effects(Returned(Undefined),
          {add_message_event_handlers(message_data.message_port,
                                      message_data.message_port, Undefined)},
          {}, {}, {}, NoReply)

\* case 'receive-message-port'.
ReceiveMessagePort(message_data) ==
  Effects(Returned(Undefined),
          {add_message_event_handlers(message_data.message_port,
                                      message_data.message_port, Undefined)},
          {message_data.message_port}, {}, {}, NoReply)

\* A variant of CreateBroadcastChannel that opens the channel and registers
\* no listener on it.
CreateBroadcastChannelUnregistered(message_data, channel) ==
  Effects(Returned(Undefined), {}, {}, {channel}, {},
          [type |-> "broadcast-channel-created"])

\* case 'create-broadcast-channel'; channel is the new BroadcastChannel.
CreateBroadcastChannel(message_data, channel) ==
  Effects(Returned(Undefined),
          {add_message_event_handlers(channel, channel, Undefined)},
          {}, {channel}, {},
          [type |-> "broadcast-channel-created"])

\* case 'receive-file-system-handles'.
ReceiveFileSystemHandles(message_data, enumerated) ==
  LET serialized_file_system_handles ==
        SerializeBatch(message_data.file_system_handles, enumerated, 1, <<>>)
  IN IF serialized_file_system_handles.status = "threw"
     THEN Effects(serialized_file_system_handles, {}, {}, {}, {}, NoReply)
     ELSE Effects(Returned(Undefined), {}, {}, {}, {},
            [type |-> "receive-serialized-file-system-handles",
             serialized_file_system_handles |->
               serialized_file_system_handles.value])

\* case 'receive-serialized-file-system-handles': a variant that
\* acknowledges the message.
ReceiveSerializedFileSystemHandlesAcknowledged(message_data) ==
  Effects(Returned(Undefined), {}, {}, {}, {},
          [type |-> "receive-serialized-file-system-handles",
           serialized_file_system_handles |-> <<>>])

\* case 'receive-serialized-file-system-handles': a variant that posts the
\* message it received.
ReceiveSerializedFileSystemHandlesForwarded(message_data) ==
  Effects(Returned(Undefined), {}, {}, {}, {}, message_data)

\* case 'receive-serialized-file-system-handles'.
ReceiveSerializedFileSystemHandles(message_data) ==
  Effects(Returned(Undefined), {}, {}, {}, {}, NoReply)

\* case 'create-file': a variant that answers with the name of the file.
CreateFileAnsweredByName(sandboxOk, n) ==
  IF ~sandboxOk
  THEN Effects(Threw("InvalidStateError", "The sandbox is not available"),
               {}, {}, {}, {}, NoReply)
  ELSE Effects(Returned(Undefined), {}, {}, {}, {"temp-file"},
         [type |-> "receive-file", name |-> "temp-file"])

\* case 'create-file'; n numbers the handle created.
CreateFile(sandboxOk, n) ==
  IF ~sandboxOk
  THEN Effects(Threw("InvalidStateError", "The sandbox is not available"),
               {}, {}, {}, {}, NoReply)
  ELSE Effects(Returned(Undefined), {}, {}, {}, {"temp-file"},
         [type |-> "receive-file",
          file_handle |->
            [FileHandle("temp-file", "", "granted", "granted")
               EXCEPT !.id = <<0, n>>]])

\* case 'create-directory': a variant that answers with 'receive-file'.
CreateDirectoryAnsweredAsFile(sandboxOk, n) ==
  IF ~sandboxOk
  THEN Effects(Threw("InvalidStateError", "The sandbox is not available"),
               {}, {}, {}, {}, NoReply)
  ELSE Effects(Returned(Undefined), {}, {}, {}, {"temp-directory"},
         [type |-> "receive-file",
          file_handle |->
            [DirectoryHandle("temp-directory", <<>>, "granted", "granted")
               EXCEPT !.id = <<0, n>>]])

\* case 'create-directory'; n numbers the handle created.
CreateDirectory(sandboxOk, n) ==
  IF ~sandboxOk
  THEN Effects(Threw("InvalidStateError", "The sandbox is not available"),
               {}, {}, {}, {}, NoReply)
  ELSE Effects(Returned(Undefined), {}, {}, {}, {"temp-directory"},
         [type |-> "receive-directory",
          directory_handle |->
            [DirectoryHandle("temp-directory", <<>>, "granted", "granted")
               EXCEPT !.id = <<0, n>>]])

\* The try block of the "message" listener.  channel is the BroadcastChannel
\* object `new BroadcastChannel` yields, enumerated the handles of the batch
\* as enumerated this time, sandboxOk whether the sandbox calls succeed, n
\* the number of this handling (it names the handle a create yields).
MessageTryBlock(message_data, channel, enumerated, sandboxOk, n) ==
  LET type == TypeOf(message_data) IN
  CASE "isNull" \in DOMAIN message_data ->
         Effects(Threw("TypeError", "Cannot read properties of null"),
                 {}, {}, {}, {}, NoReply)
    [] type = "receive-message-port" -> ReceiveMessagePort(message_data)
    [] type = "create-broadcast-channel" ->
         CreateBroadcastChannel(message_data, channel)
    [] type = "receive-file-system-handles" ->
         ReceiveFileSystemHandles(message_data, enumerated)
    [] type = "receive-serialized-file-system-handles" ->
         ReceiveSerializedFileSystemHandles(message_data)
    [] type = "create-file" -> CreateFile(sandboxOk, n)
    [] type = "create-directory" -> CreateDirectory(sandboxOk, n)
    [] OTHER ->
         Effects(Threw("string", "Unknown message type: '" \o type \o "'"),
                 {}, {}, {}, {}, NoReply)

\* A variant of serialize_message_error_event that reports the origin as
\* the last event id.
serialize_message_error_event_mixed(message_error_event) ==
  [data |-> message_error_event.data,
   origin |-> message_error_event.origin,
   last_event_id |-> message_error_event.origin,
   has_source |-> (message_error_event.source # Null),
   ports_length |-> Len(message_error_event.ports)]

\* A variant of serialize_message_error_event that reports a source for
\* every event.
serialize_message_error_event_sourced(message_error_event) ==
  [data |-> message_error_event.data,
   origin |-> message_error_event.origin,
   last_event_id |-> message_error_event.lastEventId,
   has_source |-> TRUE,
   ports_length |-> Len(message_error_event.ports)]

\* serialize_message_error_event(message_error_event).
serialize_message_error_event(message_error_event) ==
  [data |-> message_error_event.data,
   origin |-> message_error_event.origin,
   last_event_id |-> message_error_event.lastEventId,
   has_source |-> (message_error_event.source # Null),
   ports_length |-> Len(message_error_event.ports)]

\* The try block of the "messageerror" listener.
MessageErrorTryBlock(message_event) ==
  Effects(Returned(Undefined), {}, {}, {}, {},
    [type |-> "serialized-message-error",
     serialized_message_error_event |->
       serialize_message_error_event(message_event)])

\* A variant of RunListener whose catch block posts nothing.
RunListenerWithoutReport(router, message_event, block) ==
  LET message_source == ResolveMessageSource(router, message_event)
      postFails == PostThrows(message_source, router.target_origin)
      wantsReply == block.reply # NoReply
      caught ==
        IF block.outcome.status = "threw" THEN block.outcome
        ELSE IF wantsReply /\ postFails
             THEN [status |-> "threw", error |-> PostError(message_source)]
             ELSE NotRun
      reply ==
        IF block.outcome.status = "returned" /\ wantsReply /\ ~postFails
        THEN <<[to |-> message_source, message |-> block.reply,
                target_origin |-> router.target_origin]>>
        ELSE <<>>
      report == <<>>
      escaped ==
        IF caught.status = "threw" /\ postFails
        THEN [status |-> "threw", error |-> PostError(message_source)]
        ELSE NotRun
  IN [by |-> router.receiver, router |-> router, event |-> message_event,
      message_source |-> message_source,
      attach |-> block.attach, start |-> block.start, open |-> block.open,
      create |-> block.create,
      caught |-> caught, escaped |-> escaped, sends |-> reply \o report]

\* A listener run to its end: the try block, its reply posted to
\* message_source, and the catch block posting `ERROR: ${error}` when the
\* block or its post threw.  sends is what was posted, in order; escaped is
\* the error that left the listener, if one did.
RunListener(router, message_event, block) ==
  LET message_source == ResolveMessageSource(router, message_event)
      postFails == PostThrows(message_source, router.target_origin)
      wantsReply == block.reply # NoReply
      caught ==
        IF block.outcome.status = "threw" THEN block.outcome
        ELSE IF wantsReply /\ postFails
             THEN [status |-> "threw", error |-> PostError(message_source)]
             ELSE NotRun
      reply ==
        IF block.outcome.status = "returned" /\ wantsReply /\ ~postFails
        THEN <<[to |-> message_source, message |-> block.reply,
                target_origin |-> router.target_origin]>>
        ELSE <<>>
      report ==
        IF caught.status = "threw" /\ ~postFails
        THEN <<[to |-> message_source,
                message |-> [text |-> "ERROR: " \o ErrorToString(caught.error)],
                target_origin |-> router.target_origin]>>
        ELSE <<>>
      escaped ==
        IF caught.status = "threw" /\ postFails
        THEN [status |-> "threw", error |-> PostError(message_source)]
        ELSE NotRun
  IN [by |-> router.receiver, router |-> router, event |-> message_event,
      message_source |-> message_source,
      attach |-> block.attach, start |-> block.start, open |-> block.open,
      create |-> block.create,
      caught |-> caught, escaped |-> escaped, sends |-> reply \o report]

\* ================================================================== state
VARIABLES
  subject,     \* the handle given to the serializer, as it is now
  leftEnum,    \* subject as the first serialization enumerated it
  rightEnum,   \* the handle of the second serialization
  left,        \* result of the first serialize_handle(subject)
  right,       \* result of the second serialize_handle(subject)
  verdict,     \* result of assert_equals_serialized_handles(left, right)
  target,      \* the object through which the page reaches the message target
  remote,      \* the frame is a document of the remote origin
  routers,     \* the registrations made by add_message_event_handlers
  started,     \* the ports whose message queue is enabled
  owner,       \* the realm holding port2 and each BroadcastChannel object
  inbox,       \* per endpoint, the events waiting to be dispatched at it
  suspended,   \* "message" listeners waiting at an await
  posts,       \* every postMessage() made, in order
  handlings,   \* every listener run to its end, in order
  sandbox,     \* the entries the routers created in the sandbox
  test,        \* the test the page runs
  pc,          \* where the test is
  stage,       \* the step of the test under way
  expected,    \* the handles the test sent last
  awaited,     \* the event the test waited for
  outcome,     \* how the test ended
  reportExists, \* GET[reportExists] of checkReport.sub.js
  reportField,  \* GET[reportField]
  reportValue,  \* GET[reportValue]
  report,       \* the XMLHttpRequest: not sent, sent, or loaded with a response
  reportTest,   \* the test "Violation report was sent."
  location,     \* location.href of the portal host
  history,      \* length and state of the history of the portal host
  initialLocation, \* location.href when runTestInPortal was called
  portal,       \* the messages the portal posted, and how many were dispatched
  portalResult, \* `result` of runTestInPortal: what its promise resolved with
  portalTest,   \* where runTestInPortal is and how it ended
  loaded        \* the promises of wait_for_loaded_message and the messages at self

serializerVars == <<subject, leftEnum, rightEnum, left, right, verdict>>

routerVars ==
  <<target, remote, routers, started, owner, inbox, suspended, posts, handlings, sandbox>>

testVars == <<test, pc, stage, expected, awaited, outcome>>

\* The state of the two page scripts that use no message target.
scriptVars ==
  <<reportExists, reportField, reportValue, report, reportTest,
    location, history, initialLocation, portal, portalResult, portalTest,
    loaded>>

vars == <<serializerVars, routerVars, testVars, scriptVars>>

\* --------------------------------------------------- the handles enumerated
PermissionPairs ==
  { <<"granted", "granted">>, <<"granted", "prompt">>, <<"denied", "denied">> }

TestFiles ==
  { FileHandle(n, c, p[1], p[2]) :
      n \in {"a", "b", "a.txt"}, c \in {"hello", ""}, p \in PermissionPairs }

FileA == FileHandle("a", "hello", "granted", "granted")
FileB == FileHandle("b", "hello", "granted", "granted")

\* Sequences of at most MaxEntries members of pool, no name twice (a name is
\* unique within its parent).
EntriesOver(pool) ==
  UNION { { e \in [1..n -> pool] :
              \A i, j \in 1..n : i # j => e[i].name # e[j].name } :
          n \in 0..MaxEntries }

LeafPool ==
  { FileA, FileB, FileHandle("a.txt", "", "granted", "prompt"),
    DirectoryHandle("c", <<>>, "granted", "granted"),
    PlainObject("x"), Removed(FileB) }

InnerDirectories ==
  { DirectoryHandle("d", e, "granted", "granted") : e \in EntriesOver(LeafPool) }

InnerPool ==
  { FileA, FileB,
    DirectoryHandle("c", <<FileB>>, "granted", "prompt"),
    DirectoryHandle("d", <<>>, "granted", "granted"),
    DirectoryHandle("d", <<FileB, FileA>>, "granted", "granted"),
    DirectoryHandle("d", <<FileA, PlainObject("x")>>, "granted", "granted") }

OuterDirectories ==
  { DirectoryHandle("top", e, "granted", "granted") : e \in EntriesOver(InnerPool) }

Handles ==
  TestFiles \cup InnerDirectories \cup OuterDirectories
    \cup { PlainObject("x"), Removed(FileA),
           Removed(DirectoryHandle("d", <<FileA>>, "granted", "granted")) }

\* Every order in which the platform may enumerate the children of subject
\* and of the directories below it: the same entries, permuted at each level.
EnumerationOrders(n) ==
  { p \in [1..n -> 1..n] : \A i, j \in 1..n : i # j => p[i] # p[j] }

RECURSIVE Reorderings(_)
Reorderings(h) ==
  IF Len(h.entries) = 0 THEN {h}
  ELSE LET n == Len(h.entries)
           below == [i \in 1..n |-> Reorderings(h.entries[i])]
           picks == { c \in [1..n -> UNION { below[i] : i \in 1..n }] :
                        \A i \in 1..n : c[i] \in below[i] }
       IN { [h EXCEPT !.entries = [i \in 1..n |-> c[p[i]]]] :
              c \in picks, p \in EnumerationOrders(n) }

\* ------------------------------------------------ serializer specification
\* No serialization under way.
SerializerIdle ==
  /\ subject = PlainObject("x")
  /\ leftEnum = subject
  /\ rightEnum = subject
  /\ left = NotRun
  /\ right = NotRun
  /\ verdict = NotRun

\* No message target loaded.
RoutersIdle ==
  /\ target = Undefined
  /\ remote = FALSE
  /\ routers = {}
  /\ started = {}
  /\ owner = [e \in {"port2", "channelA", "channelB", "channelC"} |-> "none"]
  /\ inbox = [e \in Endpoints |-> <<>>]
  /\ suspended = {}
  /\ posts = <<>>
  /\ handlings = <<>>
  /\ sandbox = {}

\* No test under way.
TestIdle ==
  /\ test = "none"
  /\ pc = "done"
  /\ stage = 0
  /\ expected = <<>>
  /\ awaited = NotRun
  /\ outcome = NotRun

\* Neither page script runs.
ScriptsIdle ==
  /\ reportExists = ""
  /\ reportField = ""
  /\ reportValue = <<>>
  /\ report = [state |-> "unsent"]
  /\ reportTest = NotRun
  /\ location = ""
  /\ history = [length |-> 1, state |-> Null]
  /\ initialLocation = ""
  /\ portal = [messages |-> <<>>, delivered |-> 0]
  /\ portalResult = Undefined
  /\ portalTest = NotRun
  /\ loaded = [promises |-> <<>>, messages |-> <<>>]

InitSerialize ==
  /\ subject \in Handles
  /\ leftEnum = subject
  /\ rightEnum = subject
  /\ left = NotRun
  /\ right = NotRun
  /\ verdict = NotRun
  /\ RoutersIdle
  /\ TestIdle
  /\ ScriptsIdle

\* serialize_handle(subject), the platform enumerating in some order.
SerializeLeft ==
  /\ left.status = "none"
  /\ \E e \in Reorderings(subject) :
       /\ leftEnum' = e
       /\ left' = serialize_handle(e)
  /\ subject' = AfterSerialize(subject)
  /\ UNCHANGED <<rightEnum, right, verdict, routerVars, testVars, scriptVars>>

\* A second serialize_handle(subject) of the same subject.
SerializeRight ==
  /\ right.status = "none"
  /\ \E e \in Reorderings(subject) :
       /\ rightEnum' = e
       /\ right' = serialize_handle(e)
  /\ subject' = AfterSerialize(subject)
  /\ UNCHANGED <<leftEnum, left, verdict, routerVars, testVars, scriptVars>>

\* assert_equals_serialized_handles(left, right) on the two snapshots.
CompareSnapshots ==
  /\ left.status = "returned"
  /\ right.status = "returned"
  /\ verdict.status = "none"
  /\ verdict' = assert_equals_serialized_handles(left.value, right.value)
  /\ UNCHANGED <<subject, leftEnum, rightEnum, left, right, routerVars, testVars, scriptVars>>

NextSerialize == SerializeLeft \/ SerializeRight \/ CompareSnapshots

SpecSerialize == InitSerialize /\ [][NextSerialize]_vars

\* ------------------------------------------------ comparator specification
\* The handles that differ from h in at most one place: the name, a
\* permission, the contents or the kind of h or of a handle below it, or one
\* child more or less in a directory at or below it.
RECURSIVE Variants(_)
Variants(h) ==
  LET flip(state) == IF state = "granted" THEN "denied" ELSE "granted"
      n == Len(h.entries)
  IN {h, [h EXCEPT !.name = "temp-file"],
      [h EXCEPT !.read = flip(@)], [h EXCEPT !.write = flip(@)]}
     \cup (IF h.isFile
           THEN {[h EXCEPT !.contents = IF @ = "" THEN "hello" ELSE ""],
                 DirectoryHandle(h.name, <<>>, h.read, h.write)}
           ELSE {})
     \cup (IF h.isDirectory
           THEN {FileHandle(h.name, "", h.read, h.write),
                 [h EXCEPT !.entries =
                    Append(@, FileHandle("temp-file", "", "granted", "granted"))]}
                \cup {[h EXCEPT !.entries =
                         SubSeq(@, 1, i - 1) \o SubSeq(@, i + 1, n)] : i \in 1..n}
                \cup UNION {{[h EXCEPT !.entries[i] = v] : v \in Variants(h.entries[i])} :
                            i \in 1..n}
           ELSE {})

\* The handles compared: files, directories of files and directories of
\* directories.
NestedDirectories ==
  { DirectoryHandle("top", e, "granted", "granted") :
      e \in EntriesOver({ FileA,
                          DirectoryHandle("c", <<FileB>>, "granted", "prompt"),
                          DirectoryHandle("d", <<FileB, FileA>>, "granted", "granted") }) }

InitCompare ==
  /\ subject \in TestFiles \cup InnerDirectories \cup NestedDirectories
  /\ leftEnum = subject
  /\ rightEnum = subject
  /\ left = NotRun
  /\ right = NotRun
  /\ verdict = NotRun
  /\ RoutersIdle
  /\ TestIdle
  /\ ScriptsIdle

\* serialize_handle of a handle that is subject or differs from it in one
\* place, the platform enumerating in some order.
SerializeOther ==
  /\ right.status = "none"
  /\ \E other \in Variants(subject) : \E e \in Reorderings(other) :
       /\ rightEnum' = other
       /\ right' = serialize_handle(e)
  /\ UNCHANGED <<subject, leftEnum, left, verdict, routerVars, testVars, scriptVars>>

NextCompare == SerializeLeft \/ SerializeOther \/ CompareSnapshots

SpecCompare == InitCompare /\ [][NextCompare]_vars

\* ============================================== delivery of posted messages
\* The realm an endpoint belongs to.
RealmOf(endpoint, own) ==
  CASE endpoint \in {"page", "Worker", "sharedPort", "port1", "pageChannel"} -> "page"
    [] endpoint = "frame" -> "frame"
    [] endpoint = "workerScope" -> "worker"
    [] endpoint = "connectPort" -> "shared"
    [] OTHER -> own[endpoint]

OriginOf(realm, isRemote) ==
  IF realm = "frame" /\ isRemote THEN RemoteOrigin ELSE LocalOrigin

\* The endpoints at which a message posted on `to` by fromRealm arrives: the
\* window itself, the other side of a port or worker, every other open
\* BroadcastChannel object of the origin.  A window takes the message only
\* when target_origin admits its origin (no target origin: the sender's own).
Sinks(to, fromRealm, target_origin, own, isRemote) ==
  CASE Kind(to) = "window" ->
         IF \/ target_origin = "*"
            \/ OriginOf(fromRealm, isRemote) = OriginOf(RealmOf(to, own), isRemote)
         THEN {to} ELSE {}
    [] Kind(to) \in {"worker", "port"} -> {Peer(to)}
    [] OTHER ->
         { c \in {"pageChannel", "channelA", "channelB", "channelC"} \ {to} :
             /\ RealmOf(c, own) # "none"
             /\ OriginOf(RealmOf(c, own), isRemote) = OriginOf(fromRealm, isRemote) }

\* The event post number n makes at sink.  A message carrying handles to a
\* realm of another origin cannot be deserialized there: the event is a
\* "messageerror" with null data and no ports.
EventAt(sink, fromRealm, message, transfer, n, own, isRemote) ==
  LET failed == /\ HasHandles(message)
                /\ OriginOf(fromRealm, isRemote)
                     # OriginOf(RealmOf(sink, own), isRemote)
  IN [n |-> n,
      type |-> IF failed THEN "messageerror" ELSE "message",
      data |-> IF failed THEN NullData ELSE StructuredClone(message, n),
      source |-> IF Kind(sink) = "window" THEN WindowOf(fromRealm) ELSE Null,
      origin |-> IF Kind(sink) \in {"window", "channel"}
                 THEN OriginOf(fromRealm, isRemote) ELSE "",
      lastEventId |-> "",
      ports |-> IF failed THEN <<>> ELSE transfer]

\* A variant of Delivered in which the newest event is dispatched first.
DeliveredNewestFirst(inb, to, fromRealm, message, target_origin, transfer, n, own, isRemote) ==
  [e \in Endpoints |->
     IF e \in Sinks(to, fromRealm, target_origin, own, isRemote)
     THEN <<EventAt(e, fromRealm, message, transfer, n, own, isRemote)>> \o inb[e]
     ELSE inb[e]]

\* The inboxes after post number n.
Delivered(inb, to, fromRealm, message, target_origin, transfer, n, own, isRemote) ==
  [e \in Endpoints |->
     IF e \in Sinks(to, fromRealm, target_origin, own, isRemote)
     THEN Append(inb[e], EventAt(e, fromRealm, message, transfer, n, own, isRemote))
     ELSE inb[e]]

PostRecord(n, cause, by, to, message, target_origin) ==
  [n |-> n, cause |-> cause, by |-> by, to |-> to, message |-> message,
   target_origin |-> target_origin]

\* ========================================================= message targets
\* The registrations the message targets make when they load: a document
\* replies to the source of each event with target origin '*', a dedicated
\* worker has no event source and replies on itself, the shared worker
\* registers on the port of each connection and starts it.
DocumentRouter == add_message_event_handlers("frame", Undefined, "*")
DedicatedWorkerRouter ==
  add_message_event_handlers("workerScope", "workerScope", Undefined)
SharedWorkerRouter ==
  add_message_event_handlers("connectPort", "connectPort", Undefined)

\* The handles the test page holds.
PageFile == [FileHandle("a.txt", "hello", "granted", "granted") EXCEPT !.id = <<1>>]
PageDirectory ==
  [DirectoryHandle("d", <<FileB, FileA>>, "granted", "prompt") EXCEPT !.id = <<2>>]
PageObject == [PlainObject("x") EXCEPT !.id = <<3>>]
PageRemovedFile == [Removed(FileB) EXCEPT !.id = <<4>>]

Batches ==
  { <<>>, <<PageFile, PageFile, PageDirectory>>, <<PageDirectory, PageObject>>,
    <<PageRemovedFile>> }

\* The registration the message target reached through an object makes.
TargetRouter(object) ==
  CASE object = "frame" -> DocumentRouter
    [] object = "Worker" -> DedicatedWorkerRouter
    [] object = "sharedPort" -> SharedWorkerRouter

\* The messages a peer may post on an endpoint: the six types of the
\* protocol, an object of another type, and a string.
PeerMessages ==
  { [type |-> "create-broadcast-channel",
     broadcast_channel_name |-> "file-system-file-handle-channel"],
    [type |-> "receive-serialized-file-system-handles",
     serialized_file_system_handles |->
       <<[handle |-> PageFile, serialized |-> serialize_handle(PageFile).value]>>],
    [type |-> "create-file"], [type |-> "create-directory"],
    [type |-> "bogus"] }
  \cup { [type |-> "receive-file-system-handles", file_system_handles |-> b] :
           b \in Batches }

PortMessage == [type |-> "receive-message-port", message_port |-> "port2"]

InitRouters ==
  /\ SerializerIdle
  /\ ScriptsIdle
  /\ TestIdle
  /\ target \in {"frame", "Worker", "sharedPort"}
  /\ remote \in (IF target = "frame" THEN BOOLEAN ELSE {FALSE})
  /\ routers = {TargetRouter(target)}
  /\ started = {"sharedPort", "connectPort"}
  /\ owner = [e \in {"port2", "channelA", "channelB", "channelC"} |-> "none"]
  /\ inbox = [e \in Endpoints |-> <<>>]
  /\ suspended = {}
  /\ posts = <<>>
  /\ handlings = <<>>
  /\ sandbox = {}

PagePosts == {i \in 1..Len(posts) : posts[i].by = "page"}
RouterPosts == {i \in 1..Len(posts) : posts[i].by # "page"}

\* The test page posts message on one of the objects it holds: the window of
\* the frame (target origin '*'), the worker, the port of the shared worker,
\* its end of the message channel once the other end is sent, its
\* BroadcastChannel.
PeerPost ==
  /\ Cardinality(PagePosts) < MaxPosts
  /\ \E to \in {target, "port1", "pageChannel"}, message \in PeerMessages :
       /\ to = "port1" => owner["port2"] # "none"
       /\ LET n == Len(posts) + 1
              target_origin == IF to = "frame" THEN "*" ELSE Undefined
          IN /\ posts' = Append(posts,
                  PostRecord(n, 0, "page", to, message, target_origin))
             /\ inbox' = Delivered(inbox, to, "page", message, target_origin,
                                   <<>>, n, owner, remote)
  /\ UNCHANGED <<serializerVars, scriptVars, testVars, target, remote, routers, started,
                 owner, suspended, handlings, sandbox>>

\* create_message_channel(target, target_origin): the page sends port2 of a
\* new channel to a message target and starts port1.
PeerSendPort ==
  /\ Cardinality(PagePosts) < MaxPosts
  /\ owner["port2"] = "none"
  /\ LET to == target IN
       LET n == Len(posts) + 1
           target_origin == IF to = "frame" THEN "*" ELSE Undefined
           sink == IF Kind(to) = "window" THEN to ELSE Peer(to)
       IN /\ posts' = Append(posts,
               PostRecord(n, 0, "page", to, PortMessage, target_origin))
          /\ inbox' = Delivered(inbox, to, "page", PortMessage, target_origin,
                                <<"port2">>, n, owner, remote)
          /\ owner' = [owner EXCEPT !["port2"] = RealmOf(sink, owner)]
  /\ started' = started \cup {"port1"}
  /\ UNCHANGED <<serializerVars, scriptVars, testVars, target, remote, routers, suspended,
                 handlings, sandbox>>

\* The BroadcastChannel object the next `new BroadcastChannel` yields.
FreeChannels == {i \in 1..Len(ChannelObjects) : owner[ChannelObjects[i]] = "none"}
NextChannel ==
  IF FreeChannels = {} THEN Undefined
  ELSE ChannelObjects[CHOOSE i \in FreeChannels : \A j \in FreeChannels : i <= j]

\* A "message" listener reaches an await before it replies: it serializes at
\* least one handle, or it creates an entry in the sandbox.
Awaits(message_event) ==
  /\ message_event.type = "message"
  /\ \/ /\ TypeOf(message_event.data) = "receive-file-system-handles"
        /\ message_event.data.file_system_handles # <<>>
     \/ TypeOf(message_event.data) \in {"create-file", "create-directory"}

\* A variant of Finish in which start() discards the events a port held.
FinishDroppingHeld(handling, inb) ==
  LET realm == RealmOf(handling.by, owner)
      own == [e \in DOMAIN owner |->
                IF e \in handling.open THEN realm ELSE owner[e]]
      n == Len(posts) + 1
      kept == [e \in Endpoints |-> IF e \in handling.start THEN <<>> ELSE inb[e]]
  IN /\ routers' = routers \cup handling.attach
     /\ started' = started \cup handling.start
     /\ owner' = own
     /\ sandbox' = sandbox \cup handling.create
     /\ handlings' = Append(handlings, handling)
     /\ IF handling.sends = <<>>
        THEN /\ posts' = posts
             /\ inbox' = kept
        ELSE LET send == handling.sends[1] IN
             /\ posts' = Append(posts,
                  PostRecord(n, handling.event.n, handling.by, send.to,
                             send.message, send.target_origin))
             /\ inbox' = Delivered(kept, send.to, realm, send.message,
                                   send.target_origin, <<>>, n, own, remote)

\* The state after a listener ran to its end.
Finish(handling, inb) ==
  LET realm == RealmOf(handling.by, owner)
      own == [e \in DOMAIN owner |->
                IF e \in handling.open THEN realm ELSE owner[e]]
      n == Len(posts) + 1
  IN /\ routers' = routers \cup handling.attach
     /\ started' = started \cup handling.start
     /\ owner' = own
     /\ sandbox' = sandbox \cup handling.create
     /\ handlings' = Append(handlings, handling)
     /\ IF handling.sends = <<>>
        THEN /\ posts' = posts
             /\ inbox' = inb
        ELSE LET send == handling.sends[1] IN
             /\ posts' = Append(posts,
                  PostRecord(n, handling.event.n, handling.by, send.to,
                             send.message, send.target_origin))
             /\ inbox' = Delivered(inb, send.to, realm, send.message,
                                   send.target_origin, <<>>, n, own, remote)

\* Every way the platform may enumerate the handles of a batch.
RECURSIVE Enumerations(_)
Enumerations(handles) ==
  IF handles = <<>> THEN {<<>>}
  ELSE { <<h>> \o rest : h \in Reorderings(Head(handles)),
                         rest \in Enumerations(Tail(handles)) }

Dispatchable(router) ==
  /\ inbox[router.receiver] # <<>>
  /\ Kind(router.receiver) = "port" => router.receiver \in started

\* The next event at the receiver of a router is dispatched to a listener
\* that runs to its end without waiting.
Dispatch ==
  \E router \in routers :
    /\ Dispatchable(router)
    /\ Cardinality(RouterPosts) < MaxReplies
    /\ LET message_event == Head(inbox[router.receiver])
           rest == [inbox EXCEPT ![router.receiver] = Tail(@)]
       IN /\ ~Awaits(message_event)
          /\ (message_event.type = "message"
                /\ TypeOf(message_event.data) = "create-broadcast-channel")
               => NextChannel # Undefined
          /\ Finish(RunListener(router, message_event,
                      IF message_event.type = "messageerror"
                      THEN MessageErrorTryBlock(message_event)
                      ELSE MessageTryBlock(message_event.data, NextChannel,
                                           <<>>, TRUE, Len(handlings) + 1)),
                    rest)
    /\ UNCHANGED <<serializerVars, scriptVars, testVars, target, remote, suspended>>

\* The next event at the receiver of a router is dispatched to a "message"
\* listener that waits at an await.
DispatchAwait ==
  \E router \in routers :
    /\ Dispatchable(router)
    /\ LET message_event == Head(inbox[router.receiver]) IN
       /\ Awaits(message_event)
       /\ suspended' = suspended \cup {[router |-> router, event |-> message_event]}
       /\ inbox' = [inbox EXCEPT ![router.receiver] = Tail(@)]
    /\ UNCHANGED <<serializerVars, scriptVars, testVars, target, remote, routers, started,
                   owner, posts, handlings, sandbox>>

\* A waiting listener goes on to its end.
Resume ==
  \E waiting \in suspended :
    /\ Cardinality(RouterPosts) < MaxReplies
    /\ suspended' = suspended \ {waiting}
    /\ LET data == waiting.event.data
           creates == TypeOf(data) \in {"create-file", "create-directory"}
       IN \E enumerated \in (IF creates THEN {<<>>}
                             ELSE Enumerations(data.file_system_handles)),
             sandboxOk \in (IF creates THEN BOOLEAN ELSE {TRUE}) :
            Finish(RunListener(waiting.router, waiting.event,
                     MessageTryBlock(data, Undefined, enumerated, sandboxOk,
                                     Len(handlings) + 1)),
                   inbox)
    /\ UNCHANGED <<serializerVars, scriptVars, testVars, target, remote>>

Next == PeerPost \/ PeerSendPort \/ Dispatch \/ DispatchAwait \/ Resume

Spec == InitRouters /\ [][Next]_vars

\* ============================================================ test page
\* The entries create_and_send_file_system_handles makes in the sandbox.
empty_file ==
  [FileHandle("empty-file", "", "granted", "granted") EXCEPT !.id = <<11>>]
first_file ==
  [FileHandle("first-file-with-contents", "first-text-content",
              "granted", "granted") EXCEPT !.id = <<12>>]
second_file ==
  [FileHandle("second-file-with-contents", "second-text-content",
              "granted", "granted") EXCEPT !.id = <<13>>]
empty_directory ==
  [DirectoryHandle("empty-directory", <<>>, "granted", "granted")
     EXCEPT !.id = <<14>>]
subdirectory ==
  DirectoryHandle("subdirectory",
    << FileHandle("first-file-in-subdirectory",
                  "first-subdirectory-text-content", "granted", "granted") >>,
    "granted", "granted")
directory_with_files ==
  [DirectoryHandle("directory-with-files",
     << FileHandle("first-file-in-directory", "first-directory-text-content",
                   "granted", "granted"),
        FileHandle("second-file-in-directory", "second-directory-text-content",
                   "granted", "granted"),
        subdirectory >>,
     "granted", "granted") EXCEPT !.id = <<15>>]

\* The array create_and_send_file_system_handles sends and returns.
file_system_handles ==
  << empty_file, first_file, second_file, second_file,
     empty_directory, empty_directory, directory_with_files >>

\* The entries do_message_error_test makes.
test_error_file ==
  [FileHandle("test-error-file", "test-error-file-contents",
              "granted", "granted") EXCEPT !.id = <<16>>]
test_error_directory ==
  [DirectoryHandle("test-error-directory", <<>>, "granted", "granted")
     EXCEPT !.id = <<17>>]

\* assert_equals_serialized_message_error_event(serialized_event,
\* expected_origin, expected_has_source).
assert_equals_serialized_message_error_event(serialized_event, expected_origin, expected_has_source) ==
  FirstFailure(<<
    assert_equals(serialized_event.data, NullData,
      "The message error event must set the \"data\" property to null."),
    assert_equals(serialized_event.origin, expected_origin,
      "The message error event must have the expected \"origin\" property."),
    assert_equals(serialized_event.last_event_id, "",
      "The message error event must set the \"lastEventId\" property to the empty string."),
    assert_equals(serialized_event.has_source, expected_has_source,
      "The message error event must have the expected \"source\" property."),
    assert_equals(serialized_event.ports_length, 0,
      "The message error event not contain any message ports.") >>)

\* verify_response_with_message_error(response, expected_origin,
\* expected_has_source).
verify_response_with_message_error(response, expected_origin, expected_has_source) ==
  IF TypeOf(response) # "serialized-message-error"
  THEN Threw("AssertionError",
         "The message target must receive a \"serialized-message-error\" message response.")
  ELSE assert_equals_serialized_message_error_event(
         response.serialized_message_error_event,
         expected_origin, expected_has_source)

\* One round of the loop of verify_response_with_file_system_handles.
\* cloned_enumerated and expected_enumerated are the two handles as the
\* platform enumerates them for the serialize_handle calls of the round.
VerifyHandle(response_handle, expected_handle, cloned_enumerated, expected_enumerated) ==
  LET cloned_handle == response_handle.handle IN
  IF cloned_handle.id = expected_handle.id
  THEN Threw("AssertionError",
         "Cloning a FileSystemFileHandle through postMessage() must create a new instance.")
  ELSE
    LET serialized_cloned_handle == serialize_handle(cloned_enumerated)
        expected_serialized_file_handle == serialize_handle(expected_enumerated)
    IN IF serialized_cloned_handle.status = "threw"
       THEN serialized_cloned_handle
       ELSE IF expected_serialized_file_handle.status = "threw"
       THEN expected_serialized_file_handle
       ELSE FirstFailure(<<
              assert_equals_serialized_handles(
                serialized_cloned_handle.value,
                expected_serialized_file_handle.value),
              assert_equals_serialized_handles(
                response_handle.serialized,
                expected_serialized_file_handle.value) >>)

\* verify_response_with_file_system_handles(response, expected_handles) up
\* to its loop.
verify_response_with_file_system_handles(response, expected_handles) ==
  IF TypeOf(response) # "receive-serialized-file-system-handles"
  THEN Threw("AssertionError",
         "The message target must receive a \"serialized-file-system-handles\" message response.")
  ELSE IF Len(response.serialized_file_system_handles) # Len(expected_handles)
  THEN Threw("AssertionError",
         "The response must include the expected number of serialized FileSystemHandles.")
  ELSE Returned(Undefined)

\* --------------------------------------------------- test specification
PortTests == {"do_message_port_test", "do_message_port_error_test"}
ErrorTests == {"do_message_error_test", "do_message_port_error_test"}
Tests == {"do_post_message_test"} \cup PortTests \cup ErrorTests

\* The arguments the tests of the page pass: a window is posted to with
\* target origin '*' and answers on the page itself, a worker or a port
\* answers on the object posted to.
TestTarget == IF test \in PortTests THEN "port1" ELSE target
TestReceiver ==
  IF test \in PortTests THEN "port1"
  ELSE IF target = "frame" THEN "page" ELSE target
TestTargetOrigin ==
  IF test \notin PortTests /\ target = "frame" THEN "*" ELSE Undefined
expected_has_source == test = "do_message_error_test"
expected_origin ==
  IF test = "do_message_error_test" THEN LocalOrigin ELSE ""
expected_remote_origin ==
  IF test = "do_message_error_test" THEN RemoteOrigin ELSE ""

\* A same-origin target is given the handles and must answer with them; a
\* target of another origin is run through do_message_error_test.
InitTest ==
  /\ SerializerIdle
  /\ ScriptsIdle
  /\ test \in Tests
  /\ target \in (IF test \in ErrorTests THEN {"frame"}
                 ELSE {"frame", "Worker", "sharedPort"})
  /\ remote = (test \in ErrorTests)
  /\ pc = IF test \in PortTests THEN "channel" ELSE "send"
  /\ stage = 1
  /\ expected = <<>>
  /\ awaited = NotRun
  /\ outcome = NotRun
  /\ routers = {TargetRouter(target)}
  /\ started = {"sharedPort", "connectPort"}
  /\ owner = [e \in {"port2", "channelA", "channelB", "channelC"} |-> "none"]
  /\ inbox = [e \in Endpoints |-> <<>>]
  /\ suspended = {}
  /\ posts = <<>>
  /\ handlings = <<>>
  /\ sandbox = {}

\* target.postMessage(message, target_origin) by the page.
TestPost(message) ==
  LET n == Len(posts) + 1 IN
  /\ posts' = Append(posts,
       PostRecord(n, 0, "page", TestTarget, message, TestTargetOrigin))
  /\ inbox' = Delivered(inbox, TestTarget, "page", message, TestTargetOrigin,
                        <<>>, n, owner, remote)

\* create_message_channel(target, target_origin).
CreateMessageChannel ==
  /\ pc = "channel"
  /\ LET n == Len(posts) + 1
         target_origin == IF target = "frame" THEN "*" ELSE Undefined
         sink == IF Kind(target) = "window" THEN target ELSE Peer(target)
     IN /\ posts' = Append(posts,
             PostRecord(n, 0, "page", target, PortMessage, target_origin))
        /\ inbox' = Delivered(inbox, target, "page", PortMessage, target_origin,
                              <<"port2">>, n, owner, remote)
        /\ owner' = [owner EXCEPT !["port2"] = RealmOf(sink, owner)]
  /\ started' = started \cup {"port1"}
  /\ pc' = "send"
  /\ UNCHANGED <<serializerVars, scriptVars, test, stage, expected, awaited, outcome,
                 target, remote, routers, suspended, handlings, sandbox>>

\* A variant of CreateAndSendFileSystemHandles after which the page has yet
\* to make its EventWatcher.
CreateAndSendFileSystemHandlesUnwatched ==
  /\ pc = "send"
  /\ test \notin ErrorTests
  /\ TestPost([type |-> "receive-file-system-handles",
               file_system_handles |-> file_system_handles])
  /\ expected' = file_system_handles
  /\ UNCHANGED <<serializerVars, scriptVars, test, pc, stage, awaited, outcome, target,
                 remote, routers, started, owner, suspended, handlings, sandbox>>

\* create_and_send_file_system_handles(test, target, target_origin), and
\* the EventWatcher do_post_message_test makes once it returns.
CreateAndSendFileSystemHandles ==
  /\ pc = "send"
  /\ test \notin ErrorTests
  /\ TestPost([type |-> "receive-file-system-handles",
               file_system_handles |-> file_system_handles])
  /\ expected' = file_system_handles
  /\ pc' = "wait"
  /\ UNCHANGED <<serializerVars, scriptVars, test, stage, awaited, outcome, target, remote,
                 routers, started, owner, suspended, handlings, sandbox>>

\* do_message_error_test sends a file, then a directory.
SendErrorHandles ==
  /\ pc = "send"
  /\ test \in ErrorTests
  /\ stage \in {1, 2}
  /\ LET handles == IF stage = 1 THEN <<test_error_file>>
                    ELSE <<test_error_directory>>
     IN /\ TestPost([type |-> "receive-file-system-handles",
                     file_system_handles |-> handles])
        /\ expected' = handles
  /\ pc' = "wait"
  /\ UNCHANGED <<serializerVars, scriptVars, test, stage, awaited, outcome, target, remote,
                 routers, started, owner, suspended, handlings, sandbox>>

\* do_message_error_test asks for a file, then for a directory.
PostCreate ==
  /\ pc = "send"
  /\ test \in ErrorTests
  /\ stage \in {3, 4}
  /\ TestPost([type |-> IF stage = 3 THEN "create-file" ELSE "create-directory"])
  /\ pc' = "wait"
  /\ UNCHANGED <<serializerVars, scriptVars, test, stage, expected, awaited, outcome,
                 target, remote, routers, started, owner, suspended, handlings,
                 sandbox>>

\* event_watcher.wait_for(type): the next event at the receiver is
\* dispatched.  An event of a type a watcher of the test is not waiting for
\* fails the test; without a watcher for its type it has no listener.
WaitFor ==
  /\ pc = "wait"
  /\ inbox[TestReceiver] # <<>>
  /\ Kind(TestReceiver) = "port" => TestReceiver \in started
  /\ LET event == Head(inbox[TestReceiver])
         wanted == IF stage \in {3, 4} THEN "messageerror" ELSE "message"
     IN /\ inbox' = [inbox EXCEPT ![TestReceiver] = Tail(@)]
        /\ IF event.type = wanted
           THEN /\ awaited' = event
                /\ pc' = "verify"
                /\ outcome' = outcome
           ELSE IF test \in ErrorTests
           THEN /\ awaited' = awaited
                /\ pc' = "done"
                /\ outcome' = Threw("AssertionError",
                     "EventWatcher received an event it did not wait for")
           ELSE UNCHANGED <<awaited, pc, outcome>>
  /\ UNCHANGED <<serializerVars, scriptVars, test, stage, expected, target, remote, routers,
                 started, owner, suspended, posts, handlings, sandbox>>

\* do_post_message_test verifies the response: the checks
\* verify_response_with_file_system_handles makes before its loop.
VerifyResponse ==
  /\ pc = "verify"
  /\ test \notin ErrorTests
  /\ LET result == verify_response_with_file_system_handles(awaited.data,
                                                             expected)
     IN IF result.status = "threw" \/ expected = <<>>
        THEN /\ outcome' = result
             /\ pc' = "done"
        ELSE /\ outcome' = outcome
             /\ pc' = "verify-handle"
  /\ UNCHANGED <<serializerVars, scriptVars, test, stage, expected, awaited, routerVars>>

\* The round of the loop of verify_response_with_file_system_handles for
\* the handle at index stage.
VerifyNextHandle ==
  /\ pc = "verify-handle"
  /\ LET response_handle == awaited.data.serialized_file_system_handles[stage]
         expected_handle == expected[stage]
     IN \E cloned_enumerated \in Reorderings(response_handle.handle),
           expected_enumerated \in Reorderings(expected_handle) :
          LET result == VerifyHandle(response_handle, expected_handle,
                                     cloned_enumerated, expected_enumerated)
          IN IF result.status = "threw" \/ stage = Len(expected)
             THEN /\ outcome' = result
                  /\ pc' = "done"
                  /\ stage' = stage
             ELSE /\ outcome' = outcome
                  /\ pc' = "verify-handle"
                  /\ stage' = stage + 1
  /\ UNCHANGED <<serializerVars, scriptVars, test, expected, awaited, routerVars>>

\* A step of do_message_error_test passed, or the test ended.
StepDone(result) ==
  IF result.status = "threw" \/ stage = 4
  THEN /\ outcome' = result
       /\ pc' = "done"
       /\ stage' = stage
  ELSE /\ outcome' = outcome
       /\ pc' = "send"
       /\ stage' = stage + 1

\* do_message_error_test verifies the response to the handles it sent.
VerifyMessageError ==
  /\ pc = "verify"
  /\ test \in ErrorTests
  /\ stage \in {1, 2}
  /\ StepDone(verify_response_with_message_error(
                awaited.data, expected_origin, expected_has_source))
  /\ UNCHANGED <<serializerVars, scriptVars, test, expected, awaited, routerVars>>

\* do_message_error_test verifies the "messageerror" event it received.
VerifyErrorEvent ==
  /\ pc = "verify"
  /\ test \in ErrorTests
  /\ stage \in {3, 4}
  /\ StepDone(assert_equals_serialized_message_error_event(
                serialize_message_error_event(awaited),
                expected_remote_origin, expected_has_source))
  /\ UNCHANGED <<serializerVars, scriptVars, test, expected, awaited, routerVars>>

NextTest ==
  \/ CreateMessageChannel \/ CreateAndSendFileSystemHandles
  \/ SendErrorHandles \/ PostCreate \/ WaitFor
  \/ VerifyResponse \/ VerifyNextHandle
  \/ VerifyMessageError \/ VerifyErrorEvent
  \/ Dispatch \/ DispatchAwait \/ Resume

SpecTest == InitTest /\ [][NextTest]_vars

\* ------------------------------------------------- fair specification
\* send_file_system_handles(handles, target, target_origin) with handles
\* the page holds, among them an object that is no handle and the handle of
\* a file that was removed.
SendFileSystemHandles ==
  /\ pc = "send"
  /\ test \notin ErrorTests
  /\ \E handles \in Batches :
       /\ TestPost([type |-> "receive-file-system-handles",
                    file_system_handles |-> handles])
       /\ expected' = handles
  /\ pc' = "wait"
  /\ UNCHANGED <<serializerVars, scriptVars, test, stage, awaited, outcome, target, remote,
                 routers, started, owner, suspended, handlings, sandbox>>

NextFair == NextTest \/ SendFileSystemHandles

\* Resume can take a step: a listener waits at an await.
ResumeEnabled ==
  /\ suspended # {}
  /\ Cardinality(RouterPosts) < MaxReplies

\* Every event loop goes on running its tasks: an event at the receiver of
\* a listener is dispatched, a listener waiting at an await resumes, and
\* the event the page waits for is dispatched to its watcher.  The last
\* conjunct is WF_vars(Resume) with ENABLED <<Resume>>_vars written out as
\* ResumeEnabled.
Fairness ==
  /\ WF_vars(Dispatch)
  /\ WF_vars(DispatchAwait)
  /\ WF_vars(WaitFor)
  /\ ([]<>(~ResumeEnabled) \/ []<><<Resume>>_vars)

SpecFair == InitTest /\ [][NextFair]_vars /\ Fairness

\* ------------------------------------------ broadcast channel specification
\* The test of the page with a BroadcastChannel: the page opens a channel,
\* asks an iframe, a service worker and a dedicated worker to open the
\* channel of the same name, posts its handles on the channel once, waits
\* for three "message" events and then verifies the three responses.
BroadcastTest == "broadcast_channel_test"

\* The handles of the batch the page posts on the channel:
\* MaxBroadcastHandles handles of file_system_handles, from the second of
\* the two equal file handles on (a file, then directories).
BroadcastHandles == SubSeq(file_system_handles, 4, 3 + MaxBroadcastHandles)

BroadcastChannels == {"channelA", "channelB", "channelC"}
BroadcastChannelRealm(channel) ==
  CASE channel = "channelA" -> "frame"
    [] channel = "channelB" -> "service"
    [] channel = "channelC" -> "worker"

\* The registration a message target made when it handled
\* 'create-broadcast-channel' and opened channel.
BroadcastChannelRouter(channel) ==
  CreateBroadcastChannel(
    [type |-> "create-broadcast-channel",
     broadcast_channel_name |-> "file-system-file-handle-channel"],
    channel).attach

\* The state when the third create_broadcast_channel call has returned:
\* each of the three message targets has answered
\* 'broadcast-channel-created', so each holds an open channel with the
\* listeners registered on it.
InitBroadcast ==
  /\ SerializerIdle
  /\ ScriptsIdle
  /\ test = BroadcastTest
  /\ target = "frame"
  /\ remote = FALSE
  /\ pc = "send"
  /\ stage = 1
  /\ expected = <<>>
  /\ awaited = <<>>
  /\ outcome = NotRun
  /\ routers = {DocumentRouter, DedicatedWorkerRouter}
                 \cup UNION {BroadcastChannelRouter(c) : c \in BroadcastChannels}
  /\ started = {"sharedPort", "connectPort"}
  /\ owner = [e \in {"port2", "channelA", "channelB", "channelC"} |->
               IF e = "port2" THEN "none" ELSE BroadcastChannelRealm(e)]
  /\ inbox = [e \in Endpoints |-> <<>>]
  /\ suspended = {}
  /\ posts = <<>>
  /\ handlings = <<>>
  /\ sandbox = {}

\* create_and_send_file_system_handles(t, broadcast_channel).
BroadcastSend ==
  /\ pc = "send"
  /\ LET n == Len(posts) + 1
         message == [type |-> "receive-file-system-handles",
                     file_system_handles |-> BroadcastHandles]
     IN /\ posts' = Append(posts,
             PostRecord(n, 0, "page", "pageChannel", message, Undefined))
        /\ inbox' = Delivered(inbox, "pageChannel", "page", message, Undefined,
                              <<>>, n, owner, remote)
  /\ expected' = BroadcastHandles
  /\ pc' = "wait"
  /\ UNCHANGED <<serializerVars, scriptVars, test, stage, awaited, outcome, target, remote,
                 routers, started, owner, suspended, handlings, sandbox>>

\* broadcast_channel_event_watcher.wait_for('message'), three times.
BroadcastWaitFor ==
  /\ pc = "wait"
  /\ inbox["pageChannel"] # <<>>
  /\ LET event == Head(inbox["pageChannel"]) IN
       /\ inbox' = [inbox EXCEPT !["pageChannel"] = Tail(@)]
       /\ IF event.type = "message"
          THEN /\ awaited' = Append(awaited, event)
               /\ pc' = IF Len(awaited) = 2 THEN "verify" ELSE "wait"
          ELSE UNCHANGED <<awaited, pc>>
  /\ UNCHANGED <<serializerVars, scriptVars, test, stage, expected, outcome, target, remote,
                 routers, started, owner, suspended, posts, handlings, sandbox>>

\* The loop of verify_response_with_file_system_handles from handle i on,
\* with the handles of the response and the expected handles as the
\* platform enumerates them.
RECURSIVE VerifyHandles(_, _, _, _, _)
VerifyHandles(response_handles, expected_handles, cloned_enumerated, expected_enumerated, i) ==
  IF i > Len(expected_handles) THEN Returned(Undefined)
  ELSE LET result == VerifyHandle(response_handles[i], expected_handles[i],
                                  cloned_enumerated[i], expected_enumerated[i])
       IN IF result.status = "threw" THEN result
          ELSE VerifyHandles(response_handles, expected_handles,
                             cloned_enumerated, expected_enumerated, i + 1)

\* The handles of the entries of a response.
HandlesOf(serialized_file_system_handles) ==
  [i \in 1..Len(serialized_file_system_handles) |->
     serialized_file_system_handles[i].handle]

\* verify_response_with_file_system_handles for the response number stage.
BroadcastVerify ==
  /\ pc = "verify"
  /\ LET response == awaited[stage].data
         checked == verify_response_with_file_system_handles(response, expected)
     IN IF checked.status = "threw"
        THEN /\ outcome' = checked
             /\ pc' = "done"
             /\ stage' = stage
        ELSE \E cloned_enumerated \in
                  Enumerations(HandlesOf(response.serialized_file_system_handles)),
                expected_enumerated \in Enumerations(expected) :
               LET result == VerifyHandles(response.serialized_file_system_handles,
                               expected, cloned_enumerated, expected_enumerated, 1)
               IN IF result.status = "threw" \/ stage = 3
                  THEN /\ outcome' = result
                       /\ pc' = "done"
                       /\ stage' = stage
                  ELSE /\ outcome' = outcome
                       /\ pc' = "verify"
                       /\ stage' = stage + 1
  /\ UNCHANGED <<serializerVars, scriptVars, test, expected, awaited, routerVars>>

NextBroadcast ==
  \/ BroadcastSend \/ BroadcastWaitFor \/ BroadcastVerify
  \/ Dispatch \/ DispatchAwait \/ Resume

SpecBroadcast == InitBroadcast /\ [][NextBroadcast]_vars

\* ------------------------------------ any envelope on the broadcast channel
\* The page posts one envelope of any type on its BroadcastChannel object
\* while the three message targets listen on theirs.
BroadcastPost ==
  /\ pc = "send"
  /\ \E message \in PeerMessages :
       LET n == Len(posts) + 1
       IN /\ posts' = Append(posts,
               PostRecord(n, 0, "page", "pageChannel", message, Undefined))
          /\ inbox' = Delivered(inbox, "pageChannel", "page", message, Undefined,
                                <<>>, n, owner, remote)
  /\ pc' = "wait"
  /\ UNCHANGED <<serializerVars, scriptVars, test, stage, expected, awaited,
                 outcome, target, remote, routers, started, owner, suspended,
                 handlings, sandbox>>

NextExchange == BroadcastPost \/ Dispatch \/ DispatchAwait \/ Resume

SpecExchange == InitBroadcast /\ [][NextExchange]_vars

\* --------------------------- one message target asked for several channels
\* The page loads one message target and calls create_broadcast_channel
\* for it as long as it likes, then posts one envelope on its own
\* BroadcastChannel object.
InitRegistration ==
  /\ SerializerIdle
  /\ ScriptsIdle
  /\ test = BroadcastTest
  /\ target \in {"frame", "Worker", "sharedPort"}
  /\ remote = FALSE
  /\ pc = "create"
  /\ stage = 1
  /\ expected = <<>>
  /\ awaited = <<>>
  /\ outcome = NotRun
  /\ routers = {TargetRouter(target)}
  /\ started = {"sharedPort", "connectPort"}
  /\ owner = [e \in {"port2", "channelA", "channelB", "channelC"} |-> "none"]
  /\ inbox = [e \in Endpoints |-> <<>>]
  /\ suspended = {}
  /\ posts = <<>>
  /\ handlings = <<>>
  /\ sandbox = {}

\* create_broadcast_channel up to its await: the request is posted to the
\* message target and the EventWatcher made.
create_broadcast_channel ==
  /\ pc = "create"
  /\ FreeChannels # {}
  /\ TestPost([type |-> "create-broadcast-channel",
               broadcast_channel_name |-> "file-system-file-handle-channel"])
  /\ pc' = "created"
  /\ UNCHANGED <<serializerVars, scriptVars, test, stage, expected, awaited,
                 outcome, target, remote, routers, started, owner, suspended,
                 handlings, sandbox>>

\* create_broadcast_channel after its await: the response must be
\* 'broadcast-channel-created'; the page then asks for another channel or
\* goes on to post on its own.
BroadcastChannelCreated ==
  /\ pc = "created"
  /\ inbox[TestReceiver] # <<>>
  /\ LET message_event == Head(inbox[TestReceiver]) IN
       /\ inbox' = [inbox EXCEPT ![TestReceiver] = Tail(@)]
       /\ IF message_event.type # "message"
          THEN UNCHANGED <<pc, outcome>>
          ELSE IF TypeOf(message_event.data) = "broadcast-channel-created"
          THEN /\ pc' \in (IF FreeChannels = {} THEN {"send"}
                           ELSE {"create", "send"})
               /\ outcome' = outcome
          ELSE /\ pc' = "done"
               /\ outcome' = Threw("AssertionError",
                    "The message target must receive a broadcast-channel-created message response.")
  /\ UNCHANGED <<serializerVars, scriptVars, test, stage, expected, awaited,
                 target, remote, routers, started, owner, suspended, posts,
                 handlings, sandbox>>

NextRegistration ==
  \/ create_broadcast_channel \/ BroadcastChannelCreated \/ BroadcastPost
  \/ Dispatch \/ DispatchAwait \/ Resume

SpecRegistration == InitRegistration /\ [][NextRegistration]_vars

\* ====================================================== checkReport.sub.js
\* Strings the script searches are sequences of characters; a JSON value is
\* null, a string, a number or an object (a function from keys to values).
JsonNull == [type |-> "null"]
JsonUndefined == [type |-> "undefined"]
JsonString(chars) == [type |-> "string", chars |-> chars]
JsonNumber(n) == [type |-> "number", n |-> n]
JsonObject(fields) == [type |-> "object", fields |-> fields]

\* value[key]: undefined for a key the object lacks and for any key of a
\* string or a number.
Get(value, key) ==
  IF value.type = "object" /\ key \in DOMAIN value.fields
  THEN value.fields[key] ELSE JsonUndefined

\* data == "": true of the empty string and of the number 0.
LooseEqualsEmptyString(data) ==
  \/ data.type = "string" /\ data.chars = <<>>
  \/ data.type = "number" /\ data.n = 0

\* Conversion to boolean of value[key].
Truthy(value) ==
  /\ value # JsonUndefined
  /\ value # JsonNull
  /\ ~LooseEqualsEmptyString(value)

\* A variant of the first token that takes the whole string.
WholeString(chars) == chars

\* reportValue.split(" ")[0].
FirstToken(chars) ==
  LET spaces == {i \in 1..Len(chars) : chars[i] = " "} IN
  IF spaces = {} THEN chars
  ELSE SubSeq(chars, 1, (CHOOSE i \in spaces : \A j \in spaces : i <= j) - 1)

\* chars.indexOf(searched).
indexOf(chars, searched) ==
  LET found == {i \in 0..(Len(chars) - Len(searched)) :
                  SubSeq(chars, i + 1, i + Len(searched)) = searched}
  IN IF found = {} THEN -1
     ELSE CHOOSE i \in found : \A j \in found : i <= j

\* The states of a test of the harness.
TestPassed == [status |-> "PASS"]
TestFailed(message) == [status |-> "FAIL", message |-> message]

\* The last branch of the step of reportOnLoad: the assertion on the field
\* of the report, which throws a TypeError when there is no such string.
AssertReportField(data, field, value) ==
  LET csp_report == Get(data, "csp-report") IN
  IF csp_report \in {JsonUndefined, JsonNull}
  THEN TestFailed("TypeError: Cannot read properties of undefined")
  ELSE LET reported == Get(csp_report, field) IN
       IF reported.type # "string"
       THEN TestFailed("TypeError: indexOf is not a function")
       ELSE IF indexOf(reported.chars, FirstToken(value)) # -1
       THEN TestPassed
       ELSE TestFailed("did not match")

\* reportOnLoad: data is "" without a response text and the parsed response
\* otherwise; the step of reportTest.  JSON.parse throws on a text that is
\* no JSON, before the step: the test is left as it is.
reportOnLoad(exists, field, value, response) ==
  IF response.text = "invalid" THEN NotRun
  ELSE
    LET data == IF response.text = "empty" THEN JsonString(<<>>)
                ELSE response.value
        noReport == \/ data = JsonNull
                    \/ LooseEqualsEmptyString(data)
                    \/ Truthy(Get(data, "error"))
    IN IF exists = "false" /\ noReport THEN TestPassed
       ELSE IF exists = "true" /\ noReport THEN TestFailed("Report not sent.")
       ELSE IF data = JsonNull \/ LooseEqualsEmptyString(data)
       THEN TestFailed("Report not sent.")
       ELSE AssertReportField(data, field, value)

\* The values of the GET parameters and the texts report.py may answer
\* with.
ReportFields == {"violated-directive", "blocked-uri", ""}
ReportValues ==
  { <<>>, <<"a">>, <<"a", " ", "b">>, <<"b", " ", "a">>, <<" ", "a">> }
ReportedValues == { <<"a">>, <<"x", "a", "y">>, <<"b">>, <<"a", " ", "b">> }
Reports ==
  { JsonObject([k \in {"csp-report"} |->
       JsonObject([f \in {"violated-directive"} |-> JsonString(v)])]) :
      v \in ReportedValues }
Responses ==
  { [text |-> "empty"], [text |-> "invalid"] }
  \cup { [text |-> "json", value |-> v] :
         v \in { JsonNull, JsonString(<<>>), JsonNumber(0),
                 JsonObject([k \in {"error"} |-> JsonString(<<"e">>)]),
                 JsonObject([k \in {"error", "csp-report"} |->
                    IF k = "error" THEN JsonString(<<"e">>)
                    ELSE JsonObject([f \in {"violated-directive"} |->
                           JsonString(<<"a">>)])]),
                 JsonObject([k \in {"csp-report"} |-> JsonNumber(1)]),
                 JsonObject(<<>>) } \cup Reports }

InitReport ==
  /\ SerializerIdle
  /\ RoutersIdle
  /\ TestIdle
  /\ reportExists \in {"true", "false", ""}
  /\ reportField \in ReportFields
  /\ reportValue \in ReportValues
  /\ report = [state |-> "unsent"]
  /\ reportTest = NotRun
  /\ location = ""
  /\ history = [length |-> 1, state |-> Null]
  /\ initialLocation = ""
  /\ portal = [messages |-> <<>>, delivered |-> 0]
  /\ portalResult = Undefined
  /\ portalTest = NotRun
  /\ loaded = [promises |-> <<>>, messages |-> <<>>]

\* report.send().
ReportSend ==
  /\ report.state = "unsent"
  /\ report' = [state |-> "sent"]
  /\ UNCHANGED <<serializerVars, routerVars, testVars, reportExists,
                 reportField, reportValue, reportTest, location, history,
                 initialLocation, portal, portalResult, portalTest,
                 loaded>>

\* The load event of the request: report.onload runs.
ReportLoad ==
  /\ report.state = "sent"
  /\ \E response \in Responses :
       /\ report' = [state |-> "loaded", response |-> response]
       /\ reportTest' = reportOnLoad(reportExists, reportField, reportValue,
                                     response)
  /\ UNCHANGED <<serializerVars, routerVars, testVars, reportExists,
                 reportField, reportValue, location, history,
                 initialLocation, portal, portalResult, portalTest,
                 loaded>>

NextReport == ReportSend \/ ReportLoad

SpecReport == InitReport /\ [][NextReport]_vars

\* ===================================================== run-test-in-portal.js
\* The host page runs runTestInPortal under the test harness; the portal
\* context posts messages to the host and may, if the browser is wrong, change
\* the session history or the location of the host.
MaxPortalMessages == 2

PortalMessages == {"Passed", "Failed"}
HostLocations == {"host", "elsewhere"}
HistoryStates == {Null, "", "state"}

\* !!value for the values of history.state.
ToBoolean(value) == value \notin {Null, Undefined, ""}

\* A variant of resolve in which each call replaces the settled value.
resolveAgain(settled, data) == data

\* resolve(e.data): the first call settles the promise, later calls do nothing.
resolve(settled, data) == IF settled = Undefined THEN data ELSE settled

\* The assertions after the await, in order.
AssertPortalPassed(value, href, initial, hist) ==
  IF value # "Passed" THEN TestFailed("assert_equals: result")
  ELSE IF href # initial THEN TestFailed("assert_equals: location.href")
  ELSE IF hist.length # 1 THEN TestFailed("assert_equals: history.length")
  ELSE IF ToBoolean(hist.state) THEN TestFailed("assert_false: history.state")
  ELSE TestPassed

InitPortal ==
  /\ SerializerIdle
  /\ RoutersIdle
  /\ TestIdle
  /\ reportExists = ""
  /\ reportField = ""
  /\ reportValue = <<>>
  /\ report = [state |-> "unsent"]
  /\ reportTest = NotRun
  /\ location = "host"
  /\ history \in [length : 1..2, state : HistoryStates]
  /\ initialLocation = ""
  /\ portal = [messages |-> <<>>, delivered |-> 0]
  /\ portalResult = Undefined
  /\ portalTest = NotRun
  /\ loaded = [promises |-> <<>>, messages |-> <<>>]

\* runTestInPortal up to the await: the two assertions on the history of the
\* host, then the portal element is created and appended.
PortalStart ==
  /\ portalTest = NotRun
  /\ initialLocation' = location
  /\ portalTest' = IF history.length # 1
                     THEN TestFailed("assert_equals: history.length")
                   ELSE IF ToBoolean(history.state)
                     THEN TestFailed("assert_false: history.state")
                   ELSE [status |-> "awaiting"]
  /\ UNCHANGED <<serializerVars, routerVars, testVars, reportExists,
                 reportField, reportValue, report, reportTest, location,
                 history, portal, portalResult,
                 loaded>>

\* The portal element exists from the await on, whatever the test did since.
PortalCreated == portalTest.status = "awaiting" \/ portalResult # Undefined

\* The portal context posts a message to its host.
PortalPostMessage ==
  /\ PortalCreated
  /\ Len(portal.messages) < MaxPortalMessages
  /\ \E data \in PortalMessages :
       portal' = [portal EXCEPT !.messages = Append(@, data)]
  /\ UNCHANGED <<serializerVars, routerVars, testVars, reportExists,
                 reportField, reportValue, report, reportTest, location,
                 history, initialLocation, portalResult, portalTest,
                 loaded>>

\* A navigation within the portal reaches the host: its location or its
\* session history changes.
PortalNavigate ==
  /\ PortalCreated
  /\ \E href \in HostLocations, length \in 1..2, state \in HistoryStates :
       /\ <<href, length, state>> # <<location, history.length, history.state>>
       /\ location' = href
       /\ history' = [length |-> length, state |-> state]
  /\ UNCHANGED <<serializerVars, routerVars, testVars, reportExists,
                 reportField, reportValue, report, reportTest,
                 initialLocation, portal, portalResult, portalTest,
                 loaded>>

\* portal.onmessage: the next message of the portal is dispatched at the host.
PortalOnMessage ==
  /\ portal.delivered < Len(portal.messages)
  /\ portal' = [portal EXCEPT !.delivered = @ + 1]
  /\ portalResult' = resolve(portalResult, portal.messages[portal.delivered + 1])
  /\ UNCHANGED <<serializerVars, routerVars, testVars, reportExists,
                 reportField, reportValue, report, reportTest, location,
                 history, initialLocation, portalTest,
                 loaded>>

\* The await ends: runTestInPortal goes on with the settled value.
PortalResume ==
  /\ portalTest.status = "awaiting"
  /\ portalResult # Undefined
  /\ portalTest' = AssertPortalPassed(portalResult, location, initialLocation,
                                      history)
  /\ UNCHANGED <<serializerVars, routerVars, testVars, reportExists,
                 reportField, reportValue, report, reportTest, location,
                 history, initialLocation, portal, portalResult,
                 loaded>>

NextPortal ==
  \/ PortalStart
  \/ PortalPostMessage
  \/ PortalNavigate
  \/ PortalOnMessage
  \/ PortalResume

SpecPortal == InitPortal /\ [][NextPortal]_vars

\* ================================================= wait_for_loaded_message
\* add_iframe and open_window call wait_for_loaded_message(self) once per
\* message target they load; the listener each call adds stays on self and
\* sees every later message.
MaxLoadedCalls == 2
MaxLoadedMessages == 3

LoadedMessages == {"LOADED", "ERROR: Unknown message type: 'bogus'", "reply"}

Pending(since) == [state |-> "pending", since |-> since]

\* A variant of settle in which the last call decides.
settleAgain(promise, state) == [promise EXCEPT !.state = state]

\* resolve() and reject() of a promise: only the first call settles it.
settle(promise, state) ==
  IF promise.state = "pending" THEN [promise EXCEPT !.state = state] ELSE promise

\* The listener of wait_for_loaded_message.
LoadedListener(promise, data) ==
  IF data = "LOADED" THEN settle(promise, "fulfilled")
  ELSE settle(promise, "rejected")

InitLoaded ==
  /\ SerializerIdle
  /\ RoutersIdle
  /\ TestIdle
  /\ ScriptsIdle

\* wait_for_loaded_message(self): a new promise, its listener added to self.
\* The scenarios run one after the other, each awaiting its own promise.
WaitForLoadedMessage ==
  /\ Len(loaded.promises) < MaxLoadedCalls
  /\ \A i \in 1..Len(loaded.promises) : loaded.promises[i].state # "pending"
  /\ loaded' = [loaded EXCEPT
       !.promises = Append(@, Pending(Len(loaded.messages)))]
  /\ UNCHANGED <<serializerVars, routerVars, testVars, reportExists,
                 reportField, reportValue, report, reportTest, location,
                 history, initialLocation, portal, portalResult, portalTest>>

\* A message event is dispatched at self: every listener added so far runs.
LoadedOnMessage ==
  /\ Len(loaded.messages) < MaxLoadedMessages
  /\ \E data \in LoadedMessages :
       loaded' = [promises |->
                    [i \in 1..Len(loaded.promises) |->
                       LoadedListener(loaded.promises[i], data)],
                  messages |-> Append(loaded.messages, data)]
  /\ UNCHANGED <<serializerVars, routerVars, testVars, reportExists,
                 reportField, reportValue, report, reportTest, location,
                 history, initialLocation, portal, portalResult, portalTest>>

NextLoaded == WaitForLoadedMessage \/ LoadedOnMessage

SpecLoaded == InitLoaded /\ [][NextLoaded]_vars

\* ================================================================== claims
\* ---- serializer and comparator (SpecSerialize)

IsAscendingByName(snapshots) ==
  \A i, j \in 1..Len(snapshots) :
    i < j => CollationRank(snapshots[i].name) < CollationRank(snapshots[j].name)

\* snapshot lists the children that directory enumerated: the files in
\* 'files', the directories in 'directories', each once and in ascending
\* order of name, and so on below every child directory.
RECURSIVE ChildrenSortedOnce(_, _)
ChildrenSortedOnce(directory, snapshot) ==
  LET fileChildren == {i \in 1..Len(directory.entries) :
                         ~directory.entries[i].isDirectory}
      directoryChildren == {i \in 1..Len(directory.entries) :
                              directory.entries[i].isDirectory}
  IN /\ IsAscendingByName(snapshot.files)
     /\ IsAscendingByName(snapshot.directories)
     /\ Len(snapshot.files) = Cardinality(fileChildren)
     /\ Len(snapshot.directories) = Cardinality(directoryChildren)
     /\ \A i \in fileChildren :
          \E k \in 1..Len(snapshot.files) :
            /\ snapshot.files[k].name = directory.entries[i].name
            /\ snapshot.files[k].is_file
     /\ \A i \in directoryChildren :
          \E k \in 1..Len(snapshot.directories) :
            /\ snapshot.directories[k].name = directory.entries[i].name
            /\ snapshot.directories[k].is_directory
            /\ ChildrenSortedOnce(directory.entries[i], snapshot.directories[k])

\* C7: whatever the order of the enumeration, the 'files' and 'directories'
\* of a directory snapshot are sorted ascending by name and hold every child
\* exactly once, at every level of nesting.
C7_ChildrenSortedByName ==
  (left.status = "returned" /\ leftEnum.isDirectory)
    => ChildrenSortedOnce(leftEnum, left.value)

\* A directory enumerated as "b", "a" was serialized as "a", "b".
C7_Witness ==
  /\ left.status = "returned"
  /\ leftEnum.isDirectory
  /\ Len(leftEnum.entries) = 2
  /\ leftEnum.entries[1].name = "b"
  /\ leftEnum.entries[2].name = "a"
  /\ Len(left.value.files) = 2
  /\ left.value.files[1].name = "a"
  /\ left.value.files[2].name = "b"

\* C8: comparing two snapshots of the same unchanged handle raises nothing.
C8_SnapshotEqualsItself == verdict.status # "threw"

\* Two snapshots of a directory, taken under different enumeration orders,
\* were compared.
C8_Witness ==
  /\ verdict.status = "returned"
  /\ subject.isDirectory
  /\ leftEnum # rightEnum

RecognizedTypes ==
  { "receive-message-port", "create-broadcast-channel",
    "receive-file-system-handles", "receive-serialized-file-system-handles",
    "create-file", "create-directory" }

\* The posts made by the k-th listener that ran to its end.
RepliesOf(k) ==
  { i \in 1..Len(posts) :
      /\ posts[i].cause = handlings[k].event.n
      /\ posts[i].by = handlings[k].by }

\* Where the reply to an event must go: to its source, to the configured
\* target of the receiver when it has no source.
ReplyDestination(handling) ==
  IF handling.event.source # Null THEN handling.event.source
  ELSE handling.router.target

IsBatchHandling(handling) ==
  /\ handling.event.type = "message"
  /\ TypeOf(handling.event.data) = "receive-file-system-handles"

\* C1: a 'receive-file-system-handles' batch of n handles handled without a
\* failure is answered by exactly one 'receive-serialized-file-system-handles'
\* message with n entries, entry i being the i-th received handle paired
\* with a snapshot of that handle.
C1_BatchAnsweredInOrder ==
  \A k \in 1..Len(handlings) :
    (IsBatchHandling(handlings[k]) /\ handlings[k].caught.status = "none")
      => LET handles == handlings[k].event.data.file_system_handles IN
         /\ Cardinality(RepliesOf(k)) = 1
         /\ \A r \in RepliesOf(k) :
              LET message == posts[r].message IN
              /\ TypeOf(message) = "receive-serialized-file-system-handles"
              /\ Len(message.serialized_file_system_handles) = Len(handles)
              /\ \A i \in 1..Len(handles) :
                   LET entry == message.serialized_file_system_handles[i] IN
                   /\ entry.handle = handles[i]
                   /\ entry.serialized.name = handles[i].name
                   /\ entry.serialized.is_file = handles[i].isFile
                   /\ \E e \in Reorderings(handles[i]) :
                        Returned(entry.serialized) = serialize_handle(e)

\* A batch of three handles, the first two the same object, was answered.
C1_Witness ==
  \E k \in 1..Len(handlings) :
    /\ IsBatchHandling(handlings[k])
    /\ handlings[k].caught.status = "none"
    /\ Len(handlings[k].event.data.file_system_handles) = 3
    /\ handlings[k].event.data.file_system_handles[1]
         = handlings[k].event.data.file_system_handles[2]
    /\ handlings[k].event.data.file_system_handles[3].isDirectory
    /\ RepliesOf(k) # {}

IsUnknownTypeHandling(handling) ==
  /\ handling.event.type = "message"
  /\ TypeOf(handling.event.data) \notin RecognizedTypes

\* C4: handling an envelope of an unrecognized type posts the string
\* "ERROR: Unknown message type: '<type>'" to the reply destination and does
\* nothing else: no other post, no registration, no port started, no
\* channel opened, no entry created, no listener left waiting.
C4_UnknownTypeOnlyReports ==
  [][ (Len(handlings') = Len(handlings) + 1
         /\ IsUnknownTypeHandling(handlings'[Len(handlings')]))
        => LET handling == handlings'[Len(handlings')] IN
           /\ Len(posts') = Len(posts) + 1
           /\ posts'[Len(posts')].to = ReplyDestination(handling)
           /\ posts'[Len(posts')].to \in Endpoints
           /\ posts'[Len(posts')].message =
                [text |-> "ERROR: Unknown message type: '"
                            \o TypeOf(handling.event.data) \o "'"]
           /\ \A i \in 1..Len(posts) : posts'[i] = posts[i]
           /\ UNCHANGED <<routers, started, owner, sandbox, suspended>> ]_vars

\* An envelope of type 'bogus' was handled.
C4_Witness ==
  \E k \in 1..Len(handlings) :
    /\ IsUnknownTypeHandling(handlings[k])
    /\ TypeOf(handlings[k].event.data) = "bogus"
    /\ RepliesOf(k) # {}

C6_RepliesGoToSourceOrTarget ==
  \A k \in 1..Len(handlings) :
    /\ handlings[k].message_source = ReplyDestination(handlings[k])
    /\ \A r \in RepliesOf(k) :
         /\ posts[r].to = ReplyDestination(handlings[k])
         /\ posts[r].to \in Endpoints
         /\ (Kind(handlings[k].by) = "port"
               /\ handlings[k].router.target = handlings[k].by)
              => posts[r].to = handlings[k].by

\* A listener of the frame resolved the source of its event (the page), and
\* a router registered on a port replied on that port.
C6_Witness ==
  /\ \E k \in 1..Len(handlings) :
       /\ handlings[k].by = "frame"
       /\ handlings[k].message_source = "page"
  /\ \E k \in 1..Len(handlings) :
       /\ Kind(handlings[k].by) = "port"
       /\ \E r \in RepliesOf(k) : posts[r].to = handlings[k].by

IsPlainObject(h) == ~h.isFile /\ ~h.isDirectory

\* The batch holds an object that is neither a file nor a directory, and
\* every handle before it serializes.
FailsAtPlainObject(handles) ==
  \E i \in 1..Len(handles) :
    /\ IsPlainObject(handles[i])
    /\ \A j \in 1..(i - 1) : serialize_handle(handles[j]).status = "returned"

\* C10 (as amended): serializing an object that is neither a file nor a
\* directory throws the string 'Object is not a FileSystemFileHandle or
\* FileSystemDirectoryHandle ...' and yields no snapshot; the batch it is
\* part of gets no 'receive-serialized-file-system-handles' reply.
C10_PlainObjectThrowsString ==
  \A k \in 1..Len(handlings) :
    (IsBatchHandling(handlings[k])
       /\ FailsAtPlainObject(handlings[k].event.data.file_system_handles))
      => /\ handlings[k].caught.status = "threw"
         /\ handlings[k].caught.error.kind = "string"
         /\ handlings[k].caught.error.message =
              "Object is not a FileSystemFileHandle or FileSystemDirectoryHandle [object Object]"
         /\ \A r \in RepliesOf(k) :
              TypeOf(posts[r].message) # "receive-serialized-file-system-handles"

C10_Witness ==
  \E k \in 1..Len(handlings) :
    /\ IsBatchHandling(handlings[k])
    /\ FailsAtPlainObject(handlings[k].event.data.file_system_handles)
    /\ RepliesOf(k) # {}

\* C10 as stated: the failure is a TypeError.
C10_AsStated ==
  \A k \in 1..Len(handlings) :
    (IsBatchHandling(handlings[k])
       /\ FailsAtPlainObject(handlings[k].event.data.file_system_handles))
      => /\ handlings[k].caught.status = "threw"
         /\ handlings[k].caught.error.kind = "TypeError"
         /\ \A r \in RepliesOf(k) :
              TypeOf(posts[r].message) # "receive-serialized-file-system-handles"

\* C19: serialize_handle reads only: no step of a serialization changes the
\* name, kind, contents, permissions or children of the handle or of a
\* handle below it, and two serializations of the handle yield equal
\* snapshots.
C19_SerializationReadsOnly ==
  /\ [][subject' = subject]_vars
  /\ [](left.status = "returned" /\ right.status = "returned"
          => left.value = right.value)

\* A directory with a child whose write permission is still to be asked
\* for was serialized twice, its children enumerated in two orders.
C19_Witness ==
  /\ left.status = "returned"
  /\ right.status = "returned"
  /\ subject.isDirectory
  /\ leftEnum # rightEnum
  /\ \E i \in 1..Len(subject.entries) : subject.entries[i].write = "prompt"

\* ---- comparator (SpecCompare)

\* C11: the comparator returns for two snapshots of the serializer exactly
\* when they are equal in every field at every depth (the kind, the name,
\* the two permissions, the contents of a file, the files and the
\* directories of a directory, index by index); otherwise it throws an
\* assertion failure.
C11_ComparatorIsDeepEquality ==
  verdict.status # "none" =>
    /\ (verdict.status = "returned") <=> (left.value = right.value)
    /\ verdict.status = "threw" => verdict.error.kind = "AssertionError"

\* Two directories that agree in everything but a child of a subdirectory
\* were compared, and the comparator threw.
C11_Witness ==
  /\ verdict.status = "threw"
  /\ left.value.is_directory
  /\ right.value.is_directory
  /\ left.value.name = right.value.name
  /\ left.value.read_permission = right.value.read_permission
  /\ left.value.write_permission = right.value.write_permission
  /\ left.value.files = right.value.files
  /\ Len(left.value.directories) = Len(right.value.directories)
  /\ left.value.directories # right.value.directories

\* ---- broadcast channels (Spec)

IsChannelHandling(handling) ==
  /\ handling.event.type = "message"
  /\ TypeOf(handling.event.data) = "create-broadcast-channel"
  /\ handling.caught.status = "none"

\* Post p has reached the listeners of endpoint c: its event waits at c, or
\* a listener of c is handling it or has handled it.
ReachedBy(c, p) ==
  \/ \E i \in 1..Len(inbox[c]) : inbox[c][i].n = p
  \/ \E waiting \in suspended :
       waiting.router.receiver = c /\ waiting.event.n = p
  \/ \E k \in 1..Len(handlings) :
       handlings[k].by = c /\ handlings[k].event.n = p

\* The k-th handling answered 'create-broadcast-channel' once, with the
\* listeners of the new channel registered; every message the page posts on
\* its channel from then on reaches them.
ChannelReady(k) ==
  LET handling == handlings[k] IN
  /\ Cardinality(RepliesOf(k)) = 1
  /\ Cardinality(handling.open) = 1
  /\ \A r \in RepliesOf(k) : \A c \in handling.open :
       /\ posts[r].message = [type |-> "broadcast-channel-created"]
       /\ posts[r].to = ReplyDestination(handling)
       /\ [receiver |-> c, target |-> c, target_origin |-> Undefined] \in routers
       /\ \A p \in PagePosts :
            (p > r /\ posts[p].to = "pageChannel") => ReachedBy(c, p)

\* C12: a message target of the page's origin that handles
\* 'create-broadcast-channel' posts exactly one 'broadcast-channel-created'
\* to the reply destination, with the listeners of the new channel already
\* registered, so every message the page posts on the channel after that
\* reply reaches the listeners of that target.
C12_ChannelListensBeforeReply ==
  \A k \in 1..Len(handlings) :
    (IsChannelHandling(handlings[k])
       /\ OriginOf(RealmOf(handlings[k].by, owner), remote) = LocalOrigin)
      => ChannelReady(k)

\* A message posted on the channel after 'broadcast-channel-created' was
\* handled by the listeners of the new channel.
C12_Witness ==
  \E k \in 1..Len(handlings) :
    /\ IsChannelHandling(handlings[k])
    /\ ChannelReady(k)
    /\ \E r \in RepliesOf(k) : \E p \in PagePosts : \E j \in 1..Len(handlings) :
         /\ p > r
         /\ posts[p].to = "pageChannel"
         /\ handlings[j].by \in handlings[k].open
         /\ handlings[j].event.n = p

\* C12 as the specification states it: of every message target, whatever
\* its origin.
C12_AsStated ==
  \A k \in 1..Len(handlings) : IsChannelHandling(handlings[k]) => ChannelReady(k)

\* ---- message ports (Spec)

IsPortHandling(handling) ==
  /\ handling.event.type = "message"
  /\ TypeOf(handling.event.data) = "receive-message-port"
  /\ handling.caught.status = "none"

\* The type of the reply the protocol gives an event, if it gives one.
ReplyTypes(message_event) ==
  IF message_event.type = "messageerror" THEN {"serialized-message-error"}
  ELSE CASE TypeOf(message_event.data) = "create-broadcast-channel" ->
              {"broadcast-channel-created"}
         [] TypeOf(message_event.data) = "receive-file-system-handles" ->
              {"receive-serialized-file-system-handles"}
         [] TypeOf(message_event.data) = "create-file" -> {"receive-file"}
         [] TypeOf(message_event.data) = "create-directory" -> {"receive-directory"}
         [] OTHER -> {}

\* The j-th handling answered as the protocol says, on endpoint c, and the
\* answer arrived at the other end of c.
AnsweredOn(j, c) ==
  /\ \A r \in RepliesOf(j) :
       /\ posts[r].to = c
       /\ IF handlings[j].caught.status = "threw"
          THEN "text" \in DOMAIN posts[r].message
          ELSE TypeOf(posts[r].message) \in ReplyTypes(handlings[j].event)
       /\ \E i \in 1..Len(inbox[Peer(c)]) : inbox[Peer(c)][i].n = r
  /\ Cardinality(RepliesOf(j)) =
       IF handlings[j].caught.status = "none" /\ ReplyTypes(handlings[j].event) = {}
       THEN 0 ELSE 1

\* C13: handling 'receive-message-port' registers the listeners on the
\* received port with that port as target, starts the port and posts
\* nothing; every message sent on the other port of the channel reaches
\* those listeners, is answered by the same table of types, and the answer
\* comes back on the channel.
C13_PortBecomesMessageTarget ==
  \A k \in 1..Len(handlings) :
    IsPortHandling(handlings[k]) =>
      LET message_port == handlings[k].event.data.message_port IN
      /\ RepliesOf(k) = {}
      /\ [receiver |-> message_port, target |-> message_port,
          target_origin |-> Undefined] \in routers
      /\ message_port \in started
      /\ \A p \in PagePosts :
           posts[p].to = Peer(message_port) => ReachedBy(message_port, p)
      /\ \A j \in 1..Len(handlings) :
           handlings[j].by = message_port => AnsweredOn(j, message_port)

\* Handles sent on port1 were answered on port2 with their snapshots.
C13_Witness ==
  \E k \in 1..Len(handlings) : \E j \in 1..Len(handlings) :
    /\ IsPortHandling(handlings[k])
    /\ handlings[j].by = handlings[k].event.data.message_port
    /\ IsBatchHandling(handlings[j])
    /\ handlings[j].caught.status = "none"
    /\ RepliesOf(j) # {}
    /\ AnsweredOn(j, handlings[j].by)

\* ---- terminal message (Spec)

IsSerializedHandling(handling) ==
  /\ handling.event.type = "message"
  /\ TypeOf(handling.event.data) = "receive-serialized-file-system-handles"

\* C14: handling 'receive-serialized-file-system-handles' takes the event
\* from the queue of its receiver and changes nothing else: nothing is
\* posted, no error is raised, no listener is registered, no port started,
\* no channel opened, no entry created.
C14_SerializedHandlesIgnored ==
  [][ (Len(handlings') = Len(handlings) + 1
         /\ IsSerializedHandling(handlings'[Len(handlings')]))
        => LET handling == handlings'[Len(handlings')] IN
           /\ posts' = posts
           /\ handling.sends = <<>>
           /\ handling.caught.status = "none"
           /\ handling.escaped.status = "none"
           /\ inbox' = [inbox EXCEPT ![handling.by] = Tail(@)]
           /\ UNCHANGED <<routers, started, owner, sandbox, suspended>> ]_vars

\* A list of one snapshot was handled by the listeners of a port.
C14_Witness ==
  \E k \in 1..Len(handlings) :
    /\ IsSerializedHandling(handlings[k])
    /\ Len(handlings[k].event.data.serialized_file_system_handles) = 1
    /\ Kind(handlings[k].by) = "port"
    /\ RepliesOf(k) = {}

\* ---- created entries (Spec)

IsCreateHandling(handling, type) ==
  /\ handling.event.type = "message"
  /\ TypeOf(handling.event.data) = type

\* The k-th handling posted exactly one message of the given type, carrying
\* in the given field a handle that is a file (isFile) or a directory.
CreatedAnswer(k, type, field, isFile) ==
  /\ Cardinality(RepliesOf(k)) = 1
  /\ \A r \in RepliesOf(k) :
       /\ DOMAIN posts[r].message = {"type", field}
       /\ posts[r].message.type = type
       /\ posts[r].message[field].isFile = isFile
       /\ posts[r].message[field].isDirectory = ~isFile

\* C15: 'create-file' handled without a failure is answered by exactly one
\* 'receive-file' carrying a file handle, 'create-directory' by exactly one
\* 'receive-directory' carrying a directory handle, and neither is ever
\* answered by the reply of the other.
C15_CreateAnsweredInKind ==
  \A k \in 1..Len(handlings) :
    /\ (IsCreateHandling(handlings[k], "create-file")
          /\ handlings[k].caught.status = "none")
         => CreatedAnswer(k, "receive-file", "file_handle", TRUE)
    /\ (IsCreateHandling(handlings[k], "create-directory")
          /\ handlings[k].caught.status = "none")
         => CreatedAnswer(k, "receive-directory", "directory_handle", FALSE)
    /\ IsCreateHandling(handlings[k], "create-file")
         => \A r \in RepliesOf(k) : TypeOf(posts[r].message) # "receive-directory"
    /\ IsCreateHandling(handlings[k], "create-directory")
         => \A r \in RepliesOf(k) : TypeOf(posts[r].message) # "receive-file"

\* A file and a directory were asked for and both requests were answered.
C15_Witness ==
  \E k \in 1..Len(handlings) : \E j \in 1..Len(handlings) :
    /\ IsCreateHandling(handlings[k], "create-file")
    /\ CreatedAnswer(k, "receive-file", "file_handle", TRUE)
    /\ IsCreateHandling(handlings[j], "create-directory")
    /\ CreatedAnswer(j, "receive-directory", "directory_handle", FALSE)

\* ---- delivery failures (Spec)

\* The k-th handling posted one 'serialized-message-error' whose snapshot
\* is taken field by field from the event handled.
RelaysEvent(k) ==
  LET message_event == handlings[k].event IN
  /\ Cardinality(RepliesOf(k)) = 1
  /\ \A r \in RepliesOf(k) :
       /\ DOMAIN posts[r].message = {"type", "serialized_message_error_event"}
       /\ posts[r].message.type = "serialized-message-error"
       /\ posts[r].message.serialized_message_error_event =
            [data |-> message_event.data,
             origin |-> message_event.origin,
             last_event_id |-> message_event.lastEventId,
             has_source |-> (message_event.source # Null),
             ports_length |-> Len(message_event.ports)]

\* The page has received, on the other end of port c, the snapshot of a
\* delivery failure without a source and with the empty origin.
ObservedOnPort(k, c) ==
  \A r \in RepliesOf(k) :
    \E i \in 1..Len(inbox[Peer(c)]) :
      /\ inbox[Peer(c)][i].n = r
      /\ inbox[Peer(c)][i].type = "message"
      /\ inbox[Peer(c)][i].data.serialized_message_error_event.has_source = FALSE
      /\ inbox[Peer(c)][i].data.serialized_message_error_event.origin = ""

\* C16: every "messageerror" event a message target receives is answered
\* by 'serialized-message-error' with the data, origin and last event id of
\* the event, has_source true exactly when the event has a source, and
\* ports_length the number of its ports; on a message port the page
\* observes has_source false and origin "".
C16_MessageErrorRelayed ==
  \A k \in 1..Len(handlings) :
    handlings[k].event.type = "messageerror" =>
      /\ RelaysEvent(k)
      /\ Kind(handlings[k].by) = "port" => ObservedOnPort(k, handlings[k].by)

\* A delivery failure at a port was relayed and observed by the page.
C16_Witness ==
  \E k \in 1..Len(handlings) :
    /\ handlings[k].event.type = "messageerror"
    /\ Kind(handlings[k].by) = "port"
    /\ RelaysEvent(k)
    /\ ObservedOnPort(k, handlings[k].by)

\* ---- the tests of the page (SpecTest)

\* A same-origin test has received the response to the handles it sent.
HasResponse ==
  /\ test \notin ErrorTests
  /\ pc \in {"verify", "verify-handle", "done"}

\* Entry i of the response holds a new handle object whose snapshot, taken
\* by the page or by the message target, equals the snapshot of the handle
\* sent at i, however the platform enumerates the two handles.
EntryVerifies(response_handle, expected_handle) ==
  /\ response_handle.handle.id # expected_handle.id
  /\ \A cloned_enumerated \in Reorderings(response_handle.handle),
        expected_enumerated \in Reorderings(expected_handle) :
       LET serialized_cloned_handle == serialize_handle(cloned_enumerated)
           expected_serialized_file_handle ==
             serialize_handle(expected_enumerated)
       IN /\ serialized_cloned_handle.status = "returned"
          /\ expected_serialized_file_handle.status = "returned"
          /\ assert_equals_serialized_handles(
               serialized_cloned_handle.value,
               expected_serialized_file_handle.value).status = "returned"
          /\ assert_equals_serialized_handles(
               response_handle.serialized,
               expected_serialized_file_handle.value).status = "returned"

\* C2: in do_post_message_test and do_message_port_test with a window, a
\* worker or a shared worker of the page's origin, the response lists one
\* entry for each handle sent, the handle of entry i is another object than
\* the handle sent at i, the snapshot the page takes of it and the snapshot
\* the target took both equal the snapshot of the handle sent, and
\* verify_response_with_file_system_handles ends without an assertion.
C2_SameOriginResponseVerifies ==
  /\ HasResponse =>
       /\ TypeOf(awaited.data) = "receive-serialized-file-system-handles"
       /\ Len(awaited.data.serialized_file_system_handles) = Len(expected)
       /\ \A i \in 1..Len(expected) :
            EntryVerifies(awaited.data.serialized_file_system_handles[i],
                          expected[i])
  /\ (test \notin ErrorTests /\ pc = "done") => outcome = Returned(Undefined)

\* A same-origin test verified all seven handles of its batch.
C2_Witness ==
  /\ test \in {"do_post_message_test", "do_message_port_test"}
  /\ pc = "done"
  /\ stage = Len(file_system_handles)
  /\ expected = file_system_handles
  /\ outcome = Returned(Undefined)

\* ---- the wait of the page ends (SpecFair)

\* The page waits for the answer to handles it sent.
WaitsForHandles ==
  /\ pc = "wait"
  /\ ~(test \in ErrorTests /\ stage \in {3, 4})

\* The data is a string, which only the catch block of a listener posts.
IsErrorString(message_data) == "text" \in DOMAIN message_data

\* The wait has ended with a response to verify: the reply of the
\* protocol, or the string of a failure.
ResponseArrived ==
  /\ pc = "verify"
  /\ awaited.type = "message"
  /\ \/ TypeOf(awaited.data) \in
          {"receive-serialized-file-system-handles", "serialized-message-error"}
     \/ IsErrorString(awaited.data)

\* C20: with every event loop running its tasks, each wait of the page for
\* the answer to 'receive-file-system-handles' ends with a response: the
\* reply of the protocol, which is then verified, or a string "ERROR: ...",
\* on which the verification fails at the type of the response and the
\* test ends failed.
C20_WaitForAnswerEnds ==
  /\ WaitsForHandles ~> ResponseArrived
  /\ [][(pc = "verify" /\ IsErrorString(awaited.data))
          => (pc' = "done" /\ outcome'.status = "threw")]_pc

\* A failure in the listener was reported and the test ended failed.
C20_Witness ==
  /\ pc = "done"
  /\ awaited # NotRun
  /\ IsErrorString(awaited.data)
  /\ outcome.status = "threw"
  /\ \E k \in 1..Len(handlings) :
       /\ IsBatchHandling(handlings[k])
       /\ handlings[k].caught.status = "threw"

\* ---- three message targets on one broadcast channel (SpecBroadcast)

\* The events that have arrived at the channel of the page so far.
ArrivedOnChannel == awaited \o inbox["pageChannel"]

\* The channels whose listener has handled the handles the page posted.
AnsweredChannels ==
  { c \in BroadcastChannels :
      \E k \in 1..Len(handlings) :
        handlings[k].by = c /\ IsBatchHandling(handlings[k]) }

\* The event is a 'receive-serialized-file-system-handles' response with
\* one entry for each handle the page sent.
IsResponse(event) ==
  /\ event.type = "message"
  /\ verify_response_with_file_system_handles(event.data, expected).status
       = "returned"

\* C17: with an iframe, a service worker and a dedicated worker listening
\* on the channel, the handles the page posts once on the channel bring
\* exactly three 'receive-serialized-file-system-handles' responses to the
\* channel of the page, one from each target, and in every order of
\* arrival no response fails the verification of the page.
C17_ThreeResponsesVerify ==
  /\ Len(ArrivedOnChannel) = Cardinality(AnsweredChannels)
  /\ \A i \in 1..Len(ArrivedOnChannel) :
       /\ IsResponse(ArrivedOnChannel[i])
       /\ \A j \in 1..Len(ArrivedOnChannel) :
            i # j => posts[ArrivedOnChannel[i].n].by # posts[ArrivedOnChannel[j].n].by
  /\ pc \in {"verify", "done"}
       => (Len(awaited) = 3 /\ inbox["pageChannel"] = <<>>)
  /\ outcome.status # "threw"

\* The test has passed with the response of the dedicated worker received
\* first and the response of the iframe last.
C17_Witness ==
  /\ pc = "done"
  /\ outcome.status = "returned"
  /\ Len(awaited) = 3
  /\ posts[awaited[1].n].by = "channelC"
  /\ posts[awaited[3].n].by = "channelA"
  /\ \A i \in 1..3 : IsResponse(awaited[i])

\* ---- the report of a violation (SpecReport)

\* The response holds no report: no text, null, data equal to the empty
\* string (the number 0 is), or an object with an error field.
NoReportReturned(response) ==
  \/ response.text = "empty"
  \/ /\ response.text = "json"
     /\ \/ response.value = JsonNull
        \/ response.value = JsonString(<<>>)
        \/ response.value = JsonNumber(0)
        \/ /\ response.value.type = "object"
           /\ "error" \in DOMAIN response.value.fields

\* The response is a JSON text that holds data and no error field.
ReportReturned(response) ==
  /\ response.text = "json"
  /\ ~NoReportReturned(response)

\* The part of chars before its first space.
BeforeFirstSpace(chars) ==
  LET n == CHOOSE k \in 0..Len(chars) :
             /\ \A i \in 1..k : chars[i] # " "
             /\ k = Len(chars) \/ chars[k + 1] = " "
  IN SubSeq(chars, 1, n)

\* data["csp-report"][field] is a string in which token occurs.
FieldContains(response, field, token) ==
  /\ response.value.type = "object"
  /\ "csp-report" \in DOMAIN response.value.fields
  /\ LET csp_report == response.value.fields["csp-report"] IN
       /\ csp_report.type = "object"
       /\ field \in DOMAIN csp_report.fields
       /\ csp_report.fields[field].type = "string"
       /\ LET chars == csp_report.fields[field].chars IN
            \E i \in 0..Len(chars) :
              /\ i + Len(token) <= Len(chars)
              /\ SubSeq(chars, i + 1, i + Len(token)) = token

\* C22: with reportExists "true", once the response has loaded the test
\* "Violation report was sent." has passed exactly when the response holds
\* data without an error field whose csp-report has, in the field asked
\* for, a string containing the first space-separated token of
\* reportValue; a response without a report fails it with "Report not
\* sent.".
C22_ReportExpected ==
  (reportExists = "true" /\ report.state = "loaded") =>
    /\ reportTest = TestPassed
         <=> /\ ReportReturned(report.response)
             /\ FieldContains(report.response, reportField,
                               BeforeFirstSpace(reportValue))
    /\ NoReportReturned(report.response)
         => reportTest = TestFailed("Report not sent.")

\* An expected report passed on the first token of a value of two tokens,
\* found inside a longer reported string.
C22_Witness ==
  /\ reportExists = "true"
  /\ report.state = "loaded"
  /\ reportTest = TestPassed
  /\ reportValue = <<"a", " ", "b">>
  /\ FieldContains(report.response, reportField, <<"x", "a", "y">>)

\* C29 as the specification states it: with reportExists "false", once the
\* response has loaded the test has passed exactly when the response holds
\* no report, and it has failed whenever a report was returned.
C29_NoReportExpected ==
  (reportExists = "false" /\ report.state = "loaded") =>
    /\ reportTest = TestPassed <=> NoReportReturned(report.response)
    /\ ReportReturned(report.response) => reportTest.status = "FAIL"

\* ---- the test run in a portal (SpecPortal)
HistoryUntouched(hist) == hist.length = 1 /\ hist.state \in {Null, ""}

PortalIsCreated == portalTest = NotRun /\ portalTest'.status = "awaiting"

PortalTestPasses == portalTest.status # "PASS" /\ portalTest'.status = "PASS"

\* C21: runTestInPortal completes without a failed assertion only if the
\* history of the host had length 1 and an empty state when the portal was
\* created, the first message of the portal is 'Passed' (the value settled by
\* it is never changed by a later message, nor is the outcome of the test), and
\* at the check after that message the location of the host is the initial
\* one and its history still has length 1 and an empty state.
C21_PortalTestPassesOnlyIfIsolated ==
  [][/\ PortalIsCreated => HistoryUntouched(history)
     /\ portalTest'.status = "PASS" => portalTest.status \in {"awaiting", "PASS"}
     /\ portalResult # Undefined => portalResult' = portalResult
     /\ portalTest.status \in {"PASS", "FAIL"} => portalTest' = portalTest
     /\ PortalTestPasses =>
          /\ Len(portal.messages) >= 1
          /\ portal.messages[1] = "Passed"
          /\ portalResult' = "Passed"
          /\ location' = initialLocation'
          /\ HistoryUntouched(history')]_vars

\* The test has passed and the portal has sent a second, different message
\* that was dispatched at the host as well.
C21_Witness ==
  /\ portalTest.status = "PASS"
  /\ portal.delivered = 2
  /\ portal.messages = <<"Passed", "Failed">>

\* ---- replies among the routers of one broadcast channel (SpecExchange)
\* Post k answers post j, which answers post i.
AnswersInTurn(i, j, k) == posts[j].cause = i /\ posts[k].cause = j

\* C23: the exchange on a broadcast channel with two or more routers
\* quiesces.  A listener's reply depends on the message alone, so an
\* exchange that ends never has a router send, on the same channel object, a
\* message equal to the one that an equal answer of another router answered:
\* from there on the two would answer each other for ever.
C23_ExchangeQuiesces ==
  \A i, j, k \in RouterPosts :
    AnswersInTurn(i, j, k) =>
      ~ /\ posts[k].by = posts[i].by
        /\ posts[j].by # posts[i].by
        /\ posts[k].to = posts[i].to
        /\ posts[k].message = posts[i].message
        /\ posts[j].message = posts[i].message

\* ---- the order of the replies (Spec)
\* Handlings k1 and k2 are of two envelopes that one sender posted in
\* sequence on one object and that the same router received.
ReceivedInSequence(k1, k2) ==
  LET first == handlings[k1].event.n
      second == handlings[k2].event.n
  IN /\ handlings[k1].by = handlings[k2].by
     /\ first < second
     /\ posts[first].by = posts[second].by
     /\ posts[first].to = posts[second].to

RepliedInOrder(k1, k2) ==
  \A r1 \in RepliesOf(k1), r2 \in RepliesOf(k2) : r1 < r2

\* C24 as stated: of two envelopes a router receives in sequence from one
\* sender, the first is answered before the second, even when the handling
\* of the first waits at an asynchronous step.
C24_RepliesInOrderAcrossAwait ==
  \A k1, k2 \in 1..Len(handlings) :
    ReceivedInSequence(k1, k2) => RepliedInOrder(k1, k2)

\* C24: of two envelopes a router receives in sequence from one sender, the
\* first is answered before the second when the handling of the first does
\* not wait at an asynchronous step (a listener that waits lets the next
\* event in, whose listener may reply first).
C24_RepliesInOrderUnlessSuspended ==
  \A k1, k2 \in 1..Len(handlings) :
    (ReceivedInSequence(k1, k2) /\ ~Awaits(handlings[k1].event))
      => RepliedInOrder(k1, k2)

\* The page posted two envelopes on one object, the first handled without
\* waiting and the second with a wait, and the router answered both.
C24_Witness ==
  \E k1, k2 \in 1..Len(handlings) :
    /\ ReceivedInSequence(k1, k2)
    /\ posts[handlings[k1].event.n].by = "page"
    /\ ~Awaits(handlings[k1].event)
    /\ Awaits(handlings[k2].event)
    /\ RepliesOf(k1) # {}
    /\ RepliesOf(k2) # {}

\* ---- the batch posted on a new message channel (SpecTest)
\* Post p is the batch do_message_port_test posts on its port.
IsPortBatch(p) ==
  /\ test = "do_message_port_test"
  /\ posts[p].by = "page"
  /\ posts[p].to = "port1"
  /\ TypeOf(posts[p].message) = "receive-file-system-handles"

\* Where the event of post p is at the other port: waiting to be
\* dispatched, in a listener that waits, or handled.
HeldAtPort(p) == {i \in 1..Len(inbox["port2"]) : inbox["port2"][i].n = p}
SuspendedAtPort(p) ==
  {w \in suspended : w.event.n = p /\ w.router.receiver = "port2"}
HandledAtPort(p) ==
  {k \in 1..Len(handlings) : handlings[k].event.n = p /\ handlings[k].by = "port2"}

\* C25: the batch do_message_port_test posts on its port is never lost:
\* its event is at the other port in exactly one place, in the queue of
\* the port as long as the router has not started the port, and it is
\* answered exactly once, when its listener has run.
C25_PortBatchHeldUntilStarted ==
  \A p \in 1..Len(posts) :
    IsPortBatch(p) =>
      /\ Cardinality(HeldAtPort(p)) + Cardinality(SuspendedAtPort(p))
           + Cardinality(HandledAtPort(p)) = 1
      /\ "port2" \notin started => HeldAtPort(p) # {}
      /\ Cardinality({r \in 1..Len(posts) : posts[r].cause = p})
           = Cardinality(HandledAtPort(p))

\* The batch is posted while the router has yet to handle
\* 'receive-message-port': the port is not started and holds the event.
C25_Witness ==
  \E p \in 1..Len(posts) :
    /\ IsPortBatch(p)
    /\ "port2" \notin started
    /\ HeldAtPort(p) # {}
    /\ \A router \in routers : router.receiver # "port2"

\* ---- the watcher made after the batch is sent (SpecTest)
\* do_post_message_test has made its EventWatcher.
WatcherRegistered == pc \notin {"channel", "send"}

\* The event is the arrival of a router's answer to the batch the page posted.
IsReplyToBatch(event, sent) ==
  /\ event.type = "message"
  /\ event.n \in 1..Len(sent)
  /\ sent[event.n].cause \in 1..Len(sent)
  /\ LET request == sent[sent[event.n].cause]
     IN /\ request.by = "page"
        /\ TypeOf(request.message) = "receive-file-system-handles"
        /\ request.message.file_system_handles = expected

\* C26: in do_post_message_test no event arrives at the receiver before
\* the page has made its EventWatcher, although it makes it after sending
\* the batch, and the first event the watcher observes is the reply to this
\* batch.
C26_ReplyNeverPrecedesWatcher ==
  [][test \notin ErrorTests =>
       /\ Len(inbox'[TestReceiver]) > Len(inbox[TestReceiver])
            => WatcherRegistered
       /\ (awaited = NotRun /\ awaited' # NotRun)
            => (WatcherRegistered /\ IsReplyToBatch(awaited', posts'))]_vars

\* The watcher of do_post_message_test has observed its first event, the
\* reply of the router to the batch.
C26_Witness ==
  /\ test = "do_post_message_test"
  /\ awaited # NotRun
  /\ IsReplyToBatch(awaited, posts)
  /\ TypeOf(awaited.data) = "receive-serialized-file-system-handles"

\* ---- the wait for 'LOADED' (SpecLoaded)
\* What the first message after the call decides.
OutcomeOfFirstMessage(promise) ==
  IF Len(loaded.messages) = promise.since THEN "pending"
  ELSE IF loaded.messages[promise.since + 1] = "LOADED" THEN "fulfilled"
  ELSE "rejected"

\* C27: each call of wait_for_loaded_message is settled by the first
\* message its receiver gets after the call, fulfilled by 'LOADED' and
\* rejected by anything else, and stays as settled whatever messages follow,
\* those seen by the listeners of earlier calls included.
C27_SettledByFirstMessage ==
  \A i \in 1..Len(loaded.promises) :
    loaded.promises[i].state = OutcomeOfFirstMessage(loaded.promises[i])

\* A second call was fulfilled by 'LOADED' while the listener of the first,
\* fulfilled earlier, saw that message and a later one that is not 'LOADED'.
C27_Witness ==
  /\ Len(loaded.promises) = 2
  /\ Len(loaded.messages) = 3
  /\ loaded.promises[1].state = "fulfilled"
  /\ loaded.promises[2].state = "fulfilled"
  /\ loaded.promises[2].since = 1
  /\ loaded.messages[3] # "LOADED"

\* ---- a message target asked for several channels (SpecRegistration)
\* Post p is the envelope the page posted on its BroadcastChannel object.
IsBroadcastRequest(p) == posts[p].by = "page" /\ posts[p].to = "pageChannel"

RepliesTo(p) == {r \in 1..Len(posts) : posts[r].cause = p}

\* The BroadcastChannel objects the message target has opened, and the
\* 'create-broadcast-channel' requests it has handled.
OpenedChannels == {c \in {"channelA", "channelB"} : owner[c] # "none"}
RegistrationsHandled ==
  { k \in 1..Len(handlings) :
      /\ handlings[k].event.type = "message"
      /\ TypeOf(handlings[k].event.data) = "create-broadcast-channel" }

CrossesOrigins(p) ==
  /\ posts[p].by = "page"
  /\ TypeOf(posts[p].message) = "receive-file-system-handles"
  /\ \E sink \in Sinks(posts[p].to, "page", posts[p].target_origin, owner, remote) :
       OriginOf(RealmOf(sink, owner), remote) # LocalOrigin

\* The event post p made has been handled to the end.
Handled(p) == \E k \in 1..Len(handlings) : handlings[k].event.n = p

\* The posts made in answer to post p.
AnswersTo(p) == {r \in 1..Len(posts) : posts[r].cause = p}

\* Post r arrived at the page as a "message" event with the data posted.
ReceivedByPage(r) ==
  \E e \in {"page", "port1"} : \E k \in 1..Len(inbox[e]) :
    /\ inbox[e][k].n = r
    /\ inbox[e][k].type = "message"
    /\ inbox[e][k].data = posts[r].message

IsMessageErrorReport(message) ==
  /\ TypeOf(message) = "serialized-message-error"
  /\ message.serialized_message_error_event.data = NullData
  /\ message.serialized_message_error_event.last_event_id = ""
  /\ message.serialized_message_error_event.ports_length = 0

\* Post p is answered by 'serialized-message-error' and nothing else.
AnsweredByMessageError(p) ==
  /\ \A r \in AnswersTo(p) :
       /\ IsMessageErrorReport(posts[r].message)
       /\ ReceivedByPage(r)
  /\ Cardinality(AnswersTo(p)) <= 1
  /\ Handled(p) => Cardinality(AnswersTo(p)) = 1

\* C3: a 'receive-file-system-handles' message that carries at least one
\* handle to a window or port of another origin is never answered with
\* 'receive-serialized-file-system-handles'; the page receives exactly one
\* answer, a 'serialized-message-error' whose snapshot has data null, last
\* event id "" and no ports.
C3_CrossOriginHandlesReportError ==
  \A p \in 1..Len(posts) :
    (CrossesOrigins(p) /\ HasHandles(posts[p].message))
      => AnsweredByMessageError(p)

\* Handles sent to the window of another origin were answered.
C3_Witness ==
  \E p \in 1..Len(posts) :
    /\ CrossesOrigins(p)
    /\ HasHandles(posts[p].message)
    /\ Handled(p)
    /\ \E r \in AnswersTo(p) :
         /\ IsMessageErrorReport(posts[r].message)
         /\ ReceivedByPage(r)

\* ---- entries created across origins (Spec)

\* Post p of the page asks a message target for a file or a directory.
IsCreateRequest(p) ==
  /\ posts[p].by = "page"
  /\ TypeOf(posts[p].message) \in {"create-file", "create-directory"}

\* The entry post p asks for was created and the listener ran to its end.
Created(p) ==
  \E k \in 1..Len(handlings) :
    /\ handlings[k].event.n = p
    /\ handlings[k].caught.status = "none"

\* The events the answers to post p made at the receivers of the page.
ArrivalsFor(p) ==
  { a \in {"page", "port1"} \X (1..MaxPosts + MaxReplies) :
      /\ a[2] <= Len(inbox[a[1]])
      /\ inbox[a[1]][a[2]].n \in AnswersTo(p) }

\* The event is a delivery failure as the platform reports it, with the
\* given origin.
IsDeliveryFailure(event, origin) ==
  /\ event.type = "messageerror"
  /\ event.data = NullData
  /\ event.lastEventId = ""
  /\ event.ports = <<>>
  /\ event.origin = origin

\* No receiver of the page holds a created handle as a "message" event.
NoCreatedHandleReceived ==
  \A e \in {"page", "port1"} : \A i \in 1..Len(inbox[e]) :
    inbox[e][i].type = "message"
      => TypeOf(inbox[e][i].data) \notin {"receive-file", "receive-directory"}

C3_AsStated ==
  \A p \in 1..Len(posts) : CrossesOrigins(p) => AnsweredByMessageError(p)

============================================================================
